---- MODULE Spec2Model ----
(***************************************************************************)
(* Verification model of the order-fulfilment backend:                     *)
(*   - the inventory ledger (Inventory model + inventoryRoutes.js), as a   *)
(*     collection of documents mutated by the HTTP route handlers;         *)
(*   - the RabbitMQ helper (connection manager, publisher, subscriber);    *)
(*   - the order routes and the order event service that publishes for     *)
(*     them;                                                               *)
(*   - a service process (server.js) and the API gateway with its cache.   *)
(*                                                                         *)
(* Specifications                                                          *)
(*   Spec          ledger, one request handled at a time                   *)
(*   SpecScenario  ledger, the worked example of spec section 8            *)
(*   SpecRace      ledger, handlers interleaved at their await points      *)
(*   SpecMQ        messaging helper against a broker                       *)
(*   SpecPublish   messaging helper, publisher side only                   *)
(*   SpecConnect   messaging helper, connection manager only               *)
(*   SpecReconnect messaging helper, reconnection under fair scheduling    *)
(*   SpecRetried   connection manager with its reconnect budget used up    *)
(*   SpecGivenUp   publisher with the reconnect budget used up             *)
(*   SpecOrders    order routes publishing through the messaging helper    *)
(*   SpecRetire    ledger, one request at a time, with retired records     *)
(*   SpecMovements ledger with movement timestamps, retired records, reads *)
(*   SpecCreate    ledger, interleaved handlers and retired records        *)
(*   SpecServer    a service process from startServer() to its exit        *)
(*   SpecGateway   API gateway: Redis cache in front of the proxied services *)
(*   SpecPrefetch  subscriptions of one process and a backlog of messages  *)
(*   SpecDeclare   connect() and subscribeToEvents() run again after losses *)
(*   SpecResubscribe a subscriber across a connection loss, fair scheduling *)
(*   SpecPlaceholder the helper consuming for the placeholder handlers     *)
(***************************************************************************)
EXTENDS Integers, Sequences, FiniteSets, TLC

VARIABLES
    db,        \* the inventories collection: a sequence of documents
    last,      \* the request just answered: request, status, collection before it
    prev,      \* the latest request answered 2xx before that one, likewise
    hist,      \* SpecScenario: every answered request, oldest first
    inflight,  \* SpecRace: per client, the request suspended at an await
    applied,   \* SpecRace: the requests answered 2xx, in the order of their saves
    helper,    \* SpecMQ: the fields of the RabbitMQHelper singleton
    broker,    \* SpecMQ: the broker's connections and declarations
    msgs,      \* SpecMQ: the messages routed to the queue
    running,   \* SpecMQ: consume callbacks suspended at await handler(...)
    calls,     \* SpecMQ: per caller, the connect()/subscribe call at an await
    proc,      \* SpecMQ: reconnect timers, the running close(), process exit
    obs,       \* SpecMQ: what the latest publish, subscribe and callback did
    orderService, \* SpecOrders: the orders collection and the request in hand
    stamps,    \* SpecMovements: the clock, createdAt of the movements, the last read
    gateway,   \* SpecGateway: Redis, the cached responses, the backend, requests
    server     \* SpecServer: where startServer() stands, the exit status it gave

ledger == <<db, last, prev, hist, inflight, applied>>
messaging == <<helper, broker, msgs, running, calls, proc, obs>>
rest == <<orderService, stamps, gateway, server>>
vars == <<db, last, prev, hist, inflight, applied,
          helper, broker, msgs, running, calls, proc, obs, orderService,
          stamps, gateway, server>>

(***************************************************************************)
(* Bounds of the model                                                     *)
(***************************************************************************)
\* Total number of movements stored in the collection.
MaxMovements == 3
\* The same where the movements carry their createdAt (SpecMovements).
MaxDatedMovements == 2

(***************************************************************************)
(* Request inputs.  A JSON body field that is absent is falsy in the       *)
(* handlers' guards, exactly like 0 and "": the sets carry 0 and "" for it.*)
(***************************************************************************)
ProductIds == {"p1"}
Quantities == {-1, 0, 1, 2}
InitialStocks == {-1, 0, 2}
OrderIds == {"", "A"}
MovementTypes == {"", "in", "out", "adjustment", "transfer"}
Reasons == {"", "recount"}

NoDoc == 0

NoRequest == [op |-> "none", productId |-> "", quantity |-> 0, orderId |-> "",
              fulfill |-> FALSE, type |-> "", reason |-> ""]

(***************************************************************************)
(* JavaScript truthiness of a body field: !quantity, !orderId, !type.      *)
(***************************************************************************)
FalsyNum(n) == n = 0

FalsyStr(s) == s = ""

(***************************************************************************)
(* Inventory model                                                         *)
(***************************************************************************)
\* A movement sub-document.
Movement(type, quantity, reason, reference, performedBy) ==
    [type |-> type, quantity |-> quantity, reason |-> reason,
     reference |-> reference, performedBy |-> performedBy]

\* addMovement: push one movement onto the in-memory document.
addMovementMutantSkip(inventory, type, quantity, reason, reference, performedBy) ==
    inventory

\* addMovement dropping the reference.
addMovementMutantNoReference(inventory, type, quantity, reason, reference, performedBy) ==
    [inventory EXCEPT !.movements =
        Append(@, Movement(type, quantity, reason, "", performedBy))]

addMovement(inventory, type, quantity, reason, reference, performedBy) ==
    [inventory EXCEPT !.movements =
        Append(@, Movement(type, quantity, reason, reference, performedBy))]

\* new Inventory({...}): schema defaults reservedStock 0, availableStock 0,
\* isActive true, movements [].
NewInventory(productId, currentStock) ==
    [productId |-> productId, currentStock |-> currentStock, reservedStock |-> 0,
     availableStock |-> 0, movements |-> <<>>, isActive |-> TRUE]

\* Schema validators (min: 0), run by save() before the pre('save') hooks and
\* only on the paths the handler modified; every path of a new document.
MovementTypeEnum == {"in", "out", "adjustment", "reserved", "released"}

ValidMovements(doc) ==
    \A i \in 1..Len(doc.movements) :
        /\ doc.movements[i].type \in MovementTypeEnum
        /\ doc.movements[i].reason # ""

ValidateNew(doc) ==
    /\ doc.currentStock >= 0
    /\ doc.reservedStock >= 0
    /\ doc.availableStock >= 0
    /\ ValidMovements(doc)

ValidateModified(loaded, doc) ==
    /\ doc.currentStock # loaded.currentStock => doc.currentStock >= 0
    /\ doc.reservedStock # loaded.reservedStock => doc.reservedStock >= 0
    /\ doc.availableStock # loaded.availableStock => doc.availableStock >= 0
    /\ ValidMovements(doc)

\* inventorySchema.pre('save'): availableStock recomputed from the other two.
PreSave(doc) ==
    [doc EXCEPT !.availableStock = doc.currentStock - doc.reservedStock]

(***************************************************************************)
(* The collection                                                          *)
(***************************************************************************)
\* Inventory.findOne({productId}) and Inventory.findOne({productId, isActive: true}):
\* the position of the first matching document, NoDoc when there is none.
Matches(coll, productId, activeOnly) ==
    {i \in 1..Len(coll) :
        /\ coll[i].productId = productId
        /\ (activeOnly => coll[i].isActive)}

\* findOne without the isActive filter.
findOneMutantIgnoresActive(coll, productId, activeOnly) ==
    IF Matches(coll, productId, FALSE) = {} THEN NoDoc
    ELSE CHOOSE i \in Matches(coll, productId, FALSE) :
            \A j \in Matches(coll, productId, FALSE) : i <= j

findOne(coll, productId, activeOnly) ==
    IF Matches(coll, productId, activeOnly) = {} THEN NoDoc
    ELSE CHOOSE i \in Matches(coll, productId, activeOnly) :
            \A j \in Matches(coll, productId, activeOnly) : i <= j

\* The movements pushed onto the in-memory document since it was loaded.
Pushed(loaded, doc) ==
    SubSeq(doc.movements, Len(loaded.movements) + 1, Len(doc.movements))

\* The update save() sends for a loaded document: $set of the paths whose value
\* changed since the load, $push of the movements added; applied to the stored
\* document as it is now.
ApplyDelta(stored, loaded, doc) ==
    [stored EXCEPT
        !.currentStock = IF doc.currentStock # loaded.currentStock
                         THEN doc.currentStock ELSE @,
        !.reservedStock = IF doc.reservedStock # loaded.reservedStock
                          THEN doc.reservedStock ELSE @,
        !.availableStock = IF doc.availableStock # loaded.availableStock
                           THEN doc.availableStock ELSE @,
        !.movements = @ \o Pushed(loaded, doc)]

\* inventory.save() of a document loaded from position i: validation, the
\* pre('save') hook, then the update.  ok = FALSE is the rejected promise
\* (a ValidationError), with nothing written.
SaveLoaded(coll, i, loaded, doc) ==
    IF ~ValidateModified(loaded, doc) THEN [ok |-> FALSE, coll |-> coll]
    ELSE [ok |-> TRUE,
          coll |-> [coll EXCEPT ![i] = ApplyDelta(@, loaded, PreSave(doc))]]

\* The insert without the unique index on productId.
SaveNewMutantNoIndex(coll, doc) ==
    IF ~ValidateNew(doc) THEN [ok |-> FALSE, coll |-> coll]
    ELSE [ok |-> TRUE, coll |-> Append(coll, PreSave(doc))]

\* inventory.save() of a new document: validation, the pre('save') hook, then
\* the insert, which the unique index on productId rejects for a duplicate.
SaveNew(coll, doc) ==
    IF ~ValidateNew(doc) THEN [ok |-> FALSE, coll |-> coll]
    ELSE IF Matches(coll, doc.productId, FALSE) # {} THEN [ok |-> FALSE, coll |-> coll]
    ELSE [ok |-> TRUE, coll |-> Append(coll, PreSave(doc))]

(***************************************************************************)
(* Route handlers                                                          *)
(***************************************************************************)
\* What a handler does with the loaded document up to its save: status 0 when
\* it goes on to save doc, otherwise the HTTP status it answers with at once.
Answer(status, message, doc) == [status |-> status, message |-> message, doc |-> doc]

\* A handler's response and the collection it leaves.
Outcome(status, message, coll) == [status |-> status, message |-> message, coll |-> coll]

\* POST / : the document built before the save.
createBody(productId, currentStock) ==
    LET inventory == NewInventory(productId,
                                  IF FalsyNum(currentStock) THEN 0 ELSE currentStock)
    IN  IF currentStock > 0
        THEN addMovement(inventory, "in", currentStock, "Initial stock", "", "admin")
        ELSE inventory

\* PUT /:productId/stock : the switch on the movement type and the movement.
stockBodyMutantNoCheck(inventory, quantity, type, reason) ==
    CASE type = "in" ->
            Answer(0, "", addMovement([inventory EXCEPT !.currentStock = @ + quantity],
                                      type, quantity, reason, "", "system"))
      [] type = "out" ->
            Answer(0, "", addMovement([inventory EXCEPT !.currentStock = @ - quantity],
                                      type, quantity, reason, "", "system"))
      [] type = "adjustment" ->
            Answer(0, "", addMovement([inventory EXCEPT !.currentStock = quantity],
                                      type, quantity, reason, "", "system"))
      [] OTHER -> Answer(400, "Invalid movement type", inventory)

stockBody(inventory, quantity, type, reason) ==
    CASE type = "in" ->
            Answer(0, "", addMovement([inventory EXCEPT !.currentStock = @ + quantity],
                                      type, quantity, reason, "", "system"))
      [] type = "out" ->
            IF inventory.availableStock < quantity
            THEN Answer(400, "Insufficient available stock", inventory)
            ELSE Answer(0, "", addMovement([inventory EXCEPT !.currentStock = @ - quantity],
                                           type, quantity, reason, "", "system"))
      [] type = "adjustment" ->
            Answer(0, "", addMovement([inventory EXCEPT !.currentStock = quantity],
                                      type, quantity, reason, "", "system"))
      [] OTHER -> Answer(400, "Invalid movement type", inventory)

\* PUT /:productId/reserve : the availability check, the counter and the movement.
reserveBodyMutantNoCheck(inventory, quantity, orderId) ==
    Answer(0, "", addMovement([inventory EXCEPT !.reservedStock = @ + quantity],
                              "reserved", quantity, "Stock reserved for order",
                              orderId, "system"))

reserveBodyMutantDedup(inventory, quantity, orderId) ==
    IF inventory.availableStock < quantity
    THEN Answer(400, "Insufficient available stock for reservation", inventory)
    ELSE IF \E i \in 1..Len(inventory.movements) :
                /\ inventory.movements[i].type = "reserved"
                /\ inventory.movements[i].reference = orderId
    THEN Answer(0, "", inventory)
    ELSE Answer(0, "", addMovement([inventory EXCEPT !.reservedStock = @ + quantity],
                                   "reserved", quantity, "Stock reserved for order",
                                   orderId, "system"))

reserveBody(inventory, quantity, orderId) ==
    IF inventory.availableStock < quantity
    THEN Answer(400, "Insufficient available stock for reservation", inventory)
    ELSE Answer(0, "", addMovement([inventory EXCEPT !.reservedStock = @ + quantity],
                                   "reserved", quantity, "Stock reserved for order",
                                   orderId, "system"))

\* PUT /:productId/release : the reserved check, the counters and the movement.
releaseBodyMutantKeepsCurrent(inventory, quantity, orderId, fulfill) ==
    IF inventory.reservedStock < quantity
    THEN Answer(400, "Cannot release more stock than reserved", inventory)
    ELSE Answer(0, "", addMovement([inventory EXCEPT !.reservedStock = @ - quantity],
                                   IF fulfill THEN "out" ELSE "released", quantity,
                                   IF fulfill THEN "Stock fulfilled for order"
                                   ELSE "Stock reservation cancelled",
                                   orderId, "system"))

releaseBodyMutantKeepsReserved(inventory, quantity, orderId, fulfill) ==
    IF inventory.reservedStock < quantity
    THEN Answer(400, "Cannot release more stock than reserved", inventory)
    ELSE Answer(0, "", addMovement([inventory EXCEPT
                                        !.currentStock = IF fulfill THEN @ - quantity ELSE @],
                                   IF fulfill THEN "out" ELSE "released", quantity,
                                   IF fulfill THEN "Stock fulfilled for order"
                                   ELSE "Stock reservation cancelled",
                                   orderId, "system"))

releaseBodyMutantNoCheck(inventory, quantity, orderId, fulfill) ==
    IF fulfill
    THEN Answer(0, "", addMovement([inventory EXCEPT !.reservedStock = @ - quantity,
                                                     !.currentStock = @ - quantity],
                                   "out", quantity, "Stock fulfilled for order",
                                   orderId, "system"))
    ELSE Answer(0, "", addMovement([inventory EXCEPT !.reservedStock = @ - quantity],
                                   "released", quantity, "Stock reservation cancelled",
                                   orderId, "system"))

releaseBody(inventory, quantity, orderId, fulfill) ==
    IF inventory.reservedStock < quantity
    THEN Answer(400, "Cannot release more stock than reserved", inventory)
    ELSE IF fulfill
    THEN Answer(0, "", addMovement([inventory EXCEPT !.reservedStock = @ - quantity,
                                                     !.currentStock = @ - quantity],
                                   "out", quantity, "Stock fulfilled for order",
                                   orderId, "system"))
    ELSE Answer(0, "", addMovement([inventory EXCEPT !.reservedStock = @ - quantity],
                                   "released", quantity, "Stock reservation cancelled",
                                   orderId, "system"))

\* A handler without its body check.
bodyCheckMutantNone(r) == ""

\* The body check at the top of a handler: the 400 message, "" when the body passes.
bodyCheck(r) ==
    CASE r.op = "stock" ->
            IF FalsyNum(r.quantity) \/ FalsyStr(r.type) \/ FalsyStr(r.reason)
            THEN "Quantity, type, and reason are required" ELSE ""
      [] r.op \in {"reserve", "release"} ->
            IF FalsyNum(r.quantity) \/ FalsyStr(r.orderId)
            THEN "Quantity and orderId are required" ELSE ""
      [] OTHER -> ""

\* The part of a mutating handler that runs on the loaded document.
handlerBody(r, inventory) ==
    CASE r.op = "stock" -> stockBody(inventory, r.quantity, r.type, r.reason)
      [] r.op = "reserve" -> reserveBody(inventory, r.quantity, r.orderId)
      [] r.op = "release" -> releaseBody(inventory, r.quantity, r.orderId, r.fulfill)

\* The end of a mutating handler: the save of the document loaded from
\* position i, 200 when it resolves and the catch block's 400 when it rejects.
saveAndAnswer(coll, i, loaded, doc) ==
    LET s == SaveLoaded(coll, i, loaded, doc)
    IN  IF s.ok THEN Outcome(200, "", s.coll)
        ELSE Outcome(400, "ValidationError", coll)

\* The end of POST /.
insertAndAnswer(coll, doc) ==
    LET s == SaveNew(coll, doc)
    IN  IF s.ok THEN Outcome(201, "", s.coll)
        ELSE Outcome(400, "ValidationError or duplicate key", coll)

\* A whole handler, run without another request in between.
createRoute(coll, r) ==
    IF findOne(coll, r.productId, FALSE) # NoDoc
    THEN Outcome(400, "Inventory record already exists for this product", coll)
    ELSE insertAndAnswer(coll, createBody(r.productId, r.quantity))

mutateRoute(coll, r) ==
    IF bodyCheck(r) # "" THEN Outcome(400, bodyCheck(r), coll)
    ELSE LET i == findOne(coll, r.productId, TRUE)
         IN  IF i = NoDoc THEN Outcome(404, "Inventory record not found", coll)
             ELSE LET a == handlerBody(r, coll[i])
                  IN  IF a.status # 0 THEN Outcome(a.status, a.message, coll)
                      ELSE saveAndAnswer(coll, i, coll[i], a.doc)

route(coll, r) ==
    IF r.op = "create" THEN createRoute(coll, r) ELSE mutateRoute(coll, r)

(***************************************************************************)
(* Requests                                                                *)
(***************************************************************************)
CreateReq(p, stock) ==
    [NoRequest EXCEPT !.op = "create", !.productId = p, !.quantity = stock]

StockReq(p, q, type, reason) ==
    [NoRequest EXCEPT !.op = "stock", !.productId = p, !.quantity = q,
                      !.type = type, !.reason = reason]

ReserveReq(p, q, o) ==
    [NoRequest EXCEPT !.op = "reserve", !.productId = p, !.quantity = q, !.orderId = o]

ReleaseReq(p, q, o, f) ==
    [NoRequest EXCEPT !.op = "release", !.productId = p, !.quantity = q,
                      !.orderId = o, !.fulfill = f]

TotalMovements(coll) ==
    LET RECURSIVE Sum(_)
        Sum(i) == IF i = 0 THEN 0 ELSE Len(coll[i].movements) + Sum(i - 1)
    IN  Sum(Len(coll))

\* An answered request: the request, the response, the collection it found.
Completed(r, status, message, before) ==
    [req |-> r, status |-> status, message |-> message, before |-> before]

NoneYet == Completed(NoRequest, 0, "", <<>>)

(***************************************************************************)
(* Messaging: the RabbitMQHelper singleton, the broker it talks to, and    *)
(* the calls suspended at an await.  A connection is named by the order in *)
(* which amqp.connect produced it; the code creates one channel per        *)
(* connection, which carries the same name.                                *)
(***************************************************************************)
\* this.maxReconnectAttempts
maxReconnectAttempts == 5

\* Connections amqp.connect may produce in one run.
MaxConnections == 2
\* Calls of connect, publishEvent, subscribeToEvents and close in one run.
MaxCalls == 2
\* Messages other services publish to the subscriber's queue in one run.
MaxMessages == 1
\* The same where handlers are slow and a backlog builds up (SpecPrefetch).
MaxBacklog == 2

\* this.connection = null, this.channel = null
null == 0

\* The three topic exchanges connect() asserts, in the order of the awaits.
Exchanges == <<"order.events", "payment.events", "user.events">>
\* The exchange of the modelled publishEvent and subscribeToEvents calls;
\* the queue receives what other services publish to it, as in the
\* services here, which consume other services' events.
TheExchange == "order.events"

\* new RabbitMQHelper()
RabbitMQHelper ==
    [connection |-> null, channel |-> null, isConnected |-> FALSE,
     reconnectAttempts |-> 0]

\* The functions of the helper that run connect(): a direct call, the
\* lazy connect of publishEvent and of subscribeToEvents, the timer callback.
Callers == {"connect", "publish", "subscribe", "timer"}

\* A call at an await: where it waits, the connection its amqp.connect gave
\* it, the channel its pending channel operation was issued on, the index of
\* the exchange being asserted, and publishEvent's message (serialisable?).
Call(pc, own, target, k, arg) ==
    [pc |-> pc, own |-> own, target |-> target, k |-> k, arg |-> arg]

NoCall == Call("idle", null, null, 0, TRUE)

\* A connection as the broker and amqplib see it: the socket, its channel,
\* the number of ('error', 'close') listener pairs the helper put on it, the
\* channel's qos, its consumers (with and without a prefetch limit) and the
\* last delivery tag used on the channel.
Connection(open, chan, listeners, prefetch, limited, unlimited, tags) ==
    [open |-> open, chan |-> chan, listeners |-> listeners,
     prefetch |-> prefetch, limited |-> limited, unlimited |-> unlimited,
     tags |-> tags]

NewConnection == Connection(TRUE, "none", 0, FALSE, 0, 0, 0)

\* The broker: reachable or not, its connections, and what has been
\* declared (durable exchanges, the durable queue, its binding).
Broker(up, conns, exchanges, queue, bound) ==
    [up |-> up, conns |-> conns, exchanges |-> exchanges, queue |-> queue,
     bound |-> bound]

\* A message routed to the queue: ready, unacked on a channel under a
\* delivery tag, acked or dropped; whether a handler threw on it.
Message(status, chan, tag, threw) ==
    [status |-> status, chan |-> chan, tag |-> tag, threw |-> threw]

\* One invocation of the consume callback, suspended at await handler(...).
Invocation(msg, chan, tag) == [msg |-> msg, chan |-> chan, tag |-> tag]

\* close(): where it waits and on what; exit tells the shutdown handler's
\* close() from a plain one.
Closing(pc, target, exit) == [pc |-> pc, target |-> target, exit |-> exit]

NotClosing == Closing("idle", null, FALSE)

\* The process: pending reconnect timers, the running close(), the number
\* of calls made so far, and whether process.exit has run.
Process(timers, closing, made, exited) ==
    [timers |-> timers, closing |-> closing, made |-> made, exited |-> exited]

\* What the publishEvent call that just returned gave its caller, what
\* happened inside its try block, and whether the broker was up.
Published(result, outcome, up) ==
    [result |-> result, outcome |-> outcome, up |-> up]

\* What the consume callback that just finished did: the message and the
\* channel it was delivered on, whether the handler threw, whether that
\* channel was still open, the channel the settlement went out on (null:
\* none was sent), its kind, and the message the broker settled (null: none).
Settled(msg, chan, threw, deliveryOpen, sentOn, kind, hit) ==
    [msg |-> msg, chan |-> chan, threw |-> threw, deliveryOpen |-> deliveryOpen,
     sentOn |-> sentOn, kind |-> kind, hit |-> hit]

\* What the step just taken let its caller or the broker see; sub is what
\* subscribeToEvents did: "none", "consuming" or "raised".
Observed(pub, settle, sub) == [pub |-> pub, settle |-> settle, sub |-> sub]

\* A step that returned nothing and settled nothing.
Quiet ==
    Observed(Published("none", "none", TRUE),
             Settled(null, null, FALSE, FALSE, null, "none", null), "none")

(* ---- order service: data ---- *)
\* The _id values an order can have; POST creates the one not yet used.
OrderKeys == {"o1"}

\* orderSchema.status and orderSchema.paymentStatus enums.
OrderStatusEnum ==
    {"pending", "confirmed", "processing", "shipped", "delivered", "cancelled"}

PaymentStatusEnum == {"pending", "paid", "failed", "refunded"}

\* req.body.status and req.body.paymentStatus as clients send them.
StatusInputs == {"shipped", "unknown"}

PaymentInputs == {"paid", "unknown"}

OrderRoutes == {"create", "status", "payment", "cancel"}

\* No document under that _id.
NoOrder == [status |-> "none", paymentStatus |-> "none"]

\* new Order({...}) with the schema defaults.
NewOrder == [status |-> "pending", paymentStatus |-> "pending"]

\* A request to one of the four routes: the _id it names, the value in its
\* body, and for POST whether the body has the required fields and whether
\* the product service confirms availability.
OrderRequest(path, id, value, complete, available) ==
    [route |-> path, id |-> id, value |-> value, complete |-> complete,
     available |-> available]

\* The response to a request: its status code, its success flag, what
\* publishEvent gave the event service ("none": it was not called), what the
\* email method gave it ("none": it was not called), and the document the
\* handler persisted (NoOrder: nothing was written).
OrderResponse(req, code, success, published, emailed, written) ==
    [req |-> req, code |-> code, success |-> success, published |-> published,
     emailed |-> emailed, written |-> written]

NoOrderRequest == OrderRequest("none", "", "", FALSE, FALSE)

NoOrderResponse == OrderResponse(NoOrderRequest, 0, FALSE, "none", "none", NoOrder)

\* The orders collection, the request suspended at
\* await orderEventService.publish...(order) with the document it wrote, and
\* the latest response.
OrderServiceLoaded ==
    [docs |-> [k \in OrderKeys |-> NoOrder], pending |-> NoOrderRequest,
     written |-> NoOrder, res |-> NoOrderResponse]

(* ---- inventory reads and timestamps: data ---- *)
\* The response of GET /:productId/movements: its status, data.productId
\* and data.movements, each movement with its createdAt.
MovementsResponse(status, productId, movements) ==
    [status |-> status, productId |-> productId, movements |-> movements]

NoRead == MovementsResponse(0, "", <<>>)

\* timestamps: true of inventoryMovementSchema: the clock of the service
\* process in milliseconds, the createdAt of every stored movement (per
\* document, in the order of the movements array), and the latest response
\* of GET /:productId/movements.
Stamps(now, createdAt, read) == [now |-> now, createdAt |-> createdAt, read |-> read]

NoStamps == Stamps(0, <<>>, NoRead)

(* ---- API gateway: data ---- *)
\* Writes the backends accept in one run; a backend's data is named by the
\* number of writes it has taken.
MaxWrites == 1

Methods == {"GET", "POST", "DELETE"}

\* The proxied prefixes /api/<service> and the paths requested under them.
Services == {"users", "orders"}
Paths == {"", "/1"}

\* generateCacheKey(req): api_cache:<method>:<originalUrl without query>:<query>.
generateCacheKey(method, service, path) == <<"api_cache", method, service, path>>

CacheKeys == {generateCacheKey("GET", s, q) : s \in Services, q \in Paths}

\* A key Redis does not hold.
NoEntry == <<>>

\* JSON.stringify(value) as set() stores it, JSON.parse(result) as get()
\* reads it.
stringify(value) == <<"json", value>>
parse(stored) == stored[2]

\* The RedisClient: isConnected with the ioredis status, and the keys the
\* server holds.
Redis(isConnected, keys) == [isConnected |-> isConnected, keys |-> keys]

\* What a cache operation gave its caller: whether it raised, whether it
\* returned a value (get) or true (set, flushPattern), and the value.
CacheResult(raised, ok, value) == [raised |-> raised, ok |-> ok, value |-> value]

\* A request in the gateway: where it waits ("redis.get", "proxy"), what
\* cache() found ("skipped": not a GET, "not ready", "failed", "miss",
\* "hit"), and whether a cache operation made for it raised.
GatewayRequest(method, service, path, pc, lookup, raised) ==
    [method |-> method, service |-> service, path |-> path, pc |-> pc,
     lookup |-> lookup, raised |-> raised]

NoGatewayRequest == GatewayRequest("", "", "", "idle", "none", FALSE)

\* A response the gateway sent: the request (its path left out), the
\* status, the body (the data it shows), who produced it ("cache", "backend", or the "gateway"
\* itself in onError), and what redis.set returned in onProxyRes.
GatewayResponse(req, status, body, source, stored) ==
    [req |-> req, status |-> status, body |-> body, source |-> source,
     stored |-> stored]

NoGatewayResponse == GatewayResponse(NoGatewayRequest, 0, 0, "none", "none")

\* The gateway after api-gateway.js has run with REDIS_ENABLED and
\* CACHE_ENABLED: Redis connected and empty, the backends untouched.
Gateway(redis, backend, req, response) ==
    [redis |-> redis, backend |-> backend, req |-> req, response |-> response]

GatewayLoaded ==
    Gateway(Redis(TRUE, [k \in CacheKeys |-> NoEntry]),
            [s \in Services |-> 0], NoGatewayRequest, NoGatewayResponse)

(* ---- API gateway: RedisClient and CacheMiddleware ---- *)
\* RedisClient.isReady()
isReady(redis) == redis.isConnected

\* RedisClient.get(key); rejects: the ioredis command rejected.
getMutantNoCatch(redis, key, rejects) ==
    IF ~isReady(redis) THEN CacheResult(FALSE, FALSE, 0)
    ELSE IF rejects THEN CacheResult(TRUE, FALSE, 0)
    ELSE IF redis.keys[key] = NoEntry THEN CacheResult(FALSE, FALSE, 0)
    ELSE CacheResult(FALSE, TRUE, parse(redis.keys[key]))

get(redis, key, rejects) ==
    IF ~isReady(redis) THEN CacheResult(FALSE, FALSE, 0)
    ELSE IF rejects THEN CacheResult(FALSE, FALSE, 0)
    ELSE IF redis.keys[key] = NoEntry THEN CacheResult(FALSE, FALSE, 0)
    ELSE CacheResult(FALSE, TRUE, parse(redis.keys[key]))

\* RedisClient.set(key, value, ttlSeconds): the result and the keys after.
set(redis, key, value, rejects) ==
    IF ~isReady(redis) \/ rejects
    THEN [result |-> CacheResult(FALSE, FALSE, 0), keys |-> redis.keys]
    ELSE [result |-> CacheResult(FALSE, TRUE, 0),
          keys |-> [redis.keys EXCEPT ![key] = stringify(value)]]

\* RedisClient.flushPattern('api_cache:*:/api/<service>*')
flushPattern(redis, service, rejects) ==
    IF ~isReady(redis) \/ rejects
    THEN [result |-> CacheResult(FALSE, FALSE, 0), keys |-> redis.keys]
    ELSE [result |-> CacheResult(FALSE, TRUE, 0),
          keys |-> [k \in CacheKeys |->
                       IF k[3] = service THEN NoEntry ELSE redis.keys[k]]]

\* The res.json that invalidatePattern() installs on a write request: it
\* runs when the response is sent with res.json, and flushes on a 2xx
\* status.  A proxied response is piped into res and never passes it.
invalidatePattern(redis, req, via, status, rejects) ==
    IF req.method # "GET" /\ via = "json" /\ status >= 200 /\ status < 300
    THEN flushPattern(redis, req.service, rejects).keys
    ELSE redis.keys

\* onProxyRes: a GET answered 2xx by the backend is stored under its key.
onProxyRes(redis, req, status, body, rejects) ==
    IF req.method = "GET" /\ status >= 200 /\ status < 300
    THEN set(redis, generateCacheKey("GET", req.service, req.path), body, rejects)
    ELSE [result |-> CacheResult(FALSE, FALSE, 0), keys |-> redis.keys]

(* ---- service process: data ---- *)
\* startServer(): the await it stands at ("listening": app.listen was
\* called, "exited": its catch block called process.exit), whether the HTTP
\* server listens, and the status handed to process.exit (-1: none).
Server(pc, listening, status) ==
    [pc |-> pc, listening |-> listening, status |-> status]

\* server.js has been loaded: startServer() was called and stands at
\* await mongoose.connect(...).
ServerLoaded == Server("mongoose.connect", FALSE, -1)

\* The helper module has been required; nothing has been called yet.
HelperLoaded ==
    /\ helper = RabbitMQHelper
    /\ broker = Broker(TRUE, <<>>, {}, FALSE, FALSE)
    /\ msgs = <<>>
    /\ running = {}
    /\ calls = [c \in Callers |-> NoCall]
    /\ proc = Process(0, NotClosing, 0, FALSE)
    /\ obs = Quiet

(***************************************************************************)
(* Spec: one request at a time                                             *)
(***************************************************************************)
Init ==
    /\ db = <<>>
    /\ last = NoneYet
    /\ prev = NoneYet
    /\ hist = <<>>
    /\ inflight = <<>>
    /\ applied = <<>>
    /\ orderService = OrderServiceLoaded
    /\ stamps = NoStamps
    /\ gateway = GatewayLoaded
    /\ server = ServerLoaded
    /\ HelperLoaded

\* One request handled from its first line to its response.
Handle(r) ==
    /\ last = NoneYet
    /\ TotalMovements(db) < MaxMovements
    /\ LET o == route(db, r)
       IN  /\ db' = o.coll
           /\ last' = Completed(r, o.status, o.message, db)
    /\ UNCHANGED <<prev, hist, inflight, applied>>
    /\ UNCHANGED <<messaging, rest>>

CreateInventory ==
    \E p \in ProductIds, s \in InitialStocks :
        /\ last = NoneYet
        /\ Handle(CreateReq(p, s))

UpdateStock ==
    \E p \in ProductIds, q \in Quantities, t \in MovementTypes, rs \in Reasons :
        /\ last = NoneYet
        /\ Handle(StockReq(p, q, t, rs))

ReserveStock ==
    \E p \in ProductIds, q \in Quantities, o \in OrderIds :
        /\ last = NoneYet
        /\ Handle(ReserveReq(p, q, o))

ReleaseStock ==
    \E p \in ProductIds, q \in Quantities, o \in OrderIds, f \in BOOLEAN :
        /\ last = NoneYet
        /\ Handle(ReleaseReq(p, q, o, f))

\* res.json(...) has gone out: the handler's locals are dropped.
ResponseSent ==
    /\ last # NoneYet
    /\ prev' = IF last.status \in {200, 201} THEN last ELSE prev
    /\ last' = NoneYet
    /\ UNCHANGED <<db, hist, inflight, applied>>
    /\ UNCHANGED <<messaging, rest>>

Next ==
    \/ CreateInventory
    \/ UpdateStock
    \/ ReserveStock
    \/ ReleaseStock
    \/ ResponseSent

Spec == Init /\ [][Next]_vars

(***************************************************************************)
(* Ledger claims, one request at a time (Spec)                             *)
(***************************************************************************)
HasActive(coll, p) == \E i \in 1..Len(coll) : coll[i].productId = p /\ coll[i].isActive

Active(coll, p) == coll[findOne(coll, p, TRUE)]

LastMovement(doc) == doc.movements[Len(doc.movements)]

\* The counters the ledger table of the design prescribes for a request that
\* succeeds on a record with counters (cur, res).
ExpectedCurrent(r, cur) ==
    CASE r.op = "stock" /\ r.type = "in" -> cur + r.quantity
      [] r.op = "stock" /\ r.type = "out" -> cur - r.quantity
      [] r.op = "stock" /\ r.type = "adjustment" -> r.quantity
      [] r.op = "release" /\ r.fulfill -> cur - r.quantity
      [] OTHER -> cur

ExpectedReserved(r, res) ==
    CASE r.op = "reserve" -> res + r.quantity
      [] r.op = "release" -> res - r.quantity
      [] OTHER -> res

\* C1: in every persisted record 0 <= reservedStock <= currentStock.
C1_ReservedWithinCurrent ==
    \A i \in 1..Len(db) :
        /\ 0 <= db[i].reservedStock
        /\ db[i].reservedStock <= db[i].currentStock

\* C3: a reserve on an active record whose availableStock is below the
\* quantity is answered 400 (InsufficientStock for a well-formed body) and
\* leaves the collection, counters and movement log, exactly as it was.
C3_InsufficientReserveRejected ==
    (/\ last.req.op = "reserve"
     /\ HasActive(last.before, last.req.productId)
     /\ Active(last.before, last.req.productId).availableStock < last.req.quantity)
    => /\ last.status = 400
       /\ db = last.before
       /\ (last.req.quantity # 0 /\ last.req.orderId # "")
            => last.message = "Insufficient available stock for reservation"

C3_Witness ==
    /\ last.req.op = "reserve"
    /\ last.req.quantity >= 1
    /\ last.req.orderId # ""
    /\ HasActive(last.before, last.req.productId)
    /\ Active(last.before, last.req.productId).availableStock < last.req.quantity
    /\ Active(last.before, last.req.productId).availableStock > 0
    /\ last.status = 400

\* C5: a stock, reserve or release request answered 200 has appended exactly
\* one movement, of the request's quantity, and set the counters to the
\* operation's result in the same write; one answered otherwise has written
\* neither a movement nor a counter.
C5_MovementWithCounters ==
    last.req.op \in {"stock", "reserve", "release"} =>
        IF last.status = 200
        THEN /\ HasActive(last.before, last.req.productId)
             /\ Len(db) = Len(last.before)
             /\ LET b == Active(last.before, last.req.productId)
                    a == Active(db, last.req.productId)
                IN  /\ Len(a.movements) = Len(b.movements) + 1
                    /\ SubSeq(a.movements, 1, Len(b.movements)) = b.movements
                    /\ LastMovement(a).quantity = last.req.quantity
                    /\ a.currentStock = ExpectedCurrent(last.req, b.currentStock)
                    /\ a.reservedStock = ExpectedReserved(last.req, b.reservedStock)
                    /\ a.availableStock = a.currentStock - a.reservedStock
        ELSE db = last.before

C5_Witness ==
    /\ last.req.op = "stock"
    /\ last.req.type = "out"
    /\ last.status = 200
    /\ Active(db, last.req.productId).reservedStock > 0

\* C6: a reserve of a quantity q >= 1 within availableStock succeeds; a reserve
\* that succeeded, followed by a release of the same quantity for the same
\* order without fulfill, succeeds, returns reservedStock to its value before
\* the reserve, leaves currentStock as it was and has appended exactly two
\* movements, reserved then released.
C6_ReserveReleaseRoundTrip ==
    /\ (/\ last.req.op = "reserve"
        /\ last.req.quantity >= 1
        /\ last.req.orderId # ""
        /\ HasActive(last.before, last.req.productId)
        /\ last.req.quantity <= Active(last.before, last.req.productId).availableStock)
       => last.status = 200
    /\ (/\ prev.req.op = "reserve"
        /\ last.req.op = "release"
        /\ ~last.req.fulfill
        /\ last.req.productId = prev.req.productId
        /\ last.req.quantity = prev.req.quantity
        /\ last.req.orderId = prev.req.orderId)
       => /\ last.status = 200
          /\ LET b == Active(prev.before, prev.req.productId)
                 a == Active(db, last.req.productId)
                 n == Len(b.movements)
             IN  /\ a.reservedStock = b.reservedStock
                 /\ a.currentStock = b.currentStock
                 /\ Len(a.movements) = n + 2
                 /\ SubSeq(a.movements, 1, n) = b.movements
                 /\ a.movements[n + 1].type = "reserved"
                 /\ a.movements[n + 1].quantity = last.req.quantity
                 /\ a.movements[n + 2].type = "released"
                 /\ a.movements[n + 2].quantity = last.req.quantity

C6_Witness ==
    /\ prev.req.op = "reserve"
    /\ prev.req.quantity >= 1
    /\ last.req.op = "release"
    /\ ~last.req.fulfill
    /\ last.req.quantity = prev.req.quantity
    /\ last.req.orderId = prev.req.orderId
    /\ last.status = 200
    /\ Active(db, last.req.productId).reservedStock = 0
    /\ Active(last.before, last.req.productId).reservedStock = last.req.quantity

\* C7 as stated: a reserve that succeeded, followed by a release of the same
\* quantity for the same order with fulfill, lowers currentStock and
\* reservedStock by the quantity and leaves availableStock at its value
\* before the reserve.
C7_AvailableAsBeforeReserve ==
    (/\ prev.req.op = "reserve"
     /\ last.req.op = "release"
     /\ last.req.fulfill
     /\ last.req.productId = prev.req.productId
     /\ last.req.quantity = prev.req.quantity
     /\ last.req.orderId = prev.req.orderId)
    => /\ last.status = 200
       /\ LET b == Active(prev.before, prev.req.productId)
              m == Active(last.before, last.req.productId)
              a == Active(db, last.req.productId)
          IN  /\ a.currentStock = b.currentStock - last.req.quantity
              /\ a.reservedStock = m.reservedStock - last.req.quantity
              /\ a.availableStock = b.availableStock

\* C7 amended: ... lowers currentStock by the quantity from its value before
\* the reserve, lowers reservedStock by the quantity back to its value before
\* the reserve, and leaves availableStock at its value after the reserve,
\* which is the quantity below its value before the reserve.
C7_FulfilReducesStock ==
    (/\ prev.req.op = "reserve"
     /\ last.req.op = "release"
     /\ last.req.fulfill
     /\ last.req.productId = prev.req.productId
     /\ last.req.quantity = prev.req.quantity
     /\ last.req.orderId = prev.req.orderId)
    => /\ last.status = 200
       /\ LET b == Active(prev.before, prev.req.productId)
              m == Active(last.before, last.req.productId)
              a == Active(db, last.req.productId)
          IN  /\ a.currentStock = b.currentStock - last.req.quantity
              /\ m.currentStock = b.currentStock
              /\ a.reservedStock = m.reservedStock - last.req.quantity
              /\ a.reservedStock = b.reservedStock
              /\ a.availableStock = m.availableStock
              /\ a.availableStock = b.availableStock - last.req.quantity

C7_Witness ==
    /\ prev.req.op = "reserve"
    /\ prev.req.quantity >= 1
    /\ last.req.op = "release"
    /\ last.req.fulfill
    /\ last.req.quantity = prev.req.quantity
    /\ last.req.orderId = prev.req.orderId
    /\ last.status = 200
    /\ Active(db, last.req.productId).currentStock
         = Active(last.before, last.req.productId).currentStock - last.req.quantity

C20_ReleaseBeyondReserved ==
    (/\ last.req.op = "release"
     /\ HasActive(last.before, last.req.productId)
     /\ Active(last.before, last.req.productId).reservedStock < last.req.quantity)
    => /\ last.status = 400
       /\ db = last.before
       /\ (last.req.quantity # 0 /\ last.req.orderId # "")
            => last.message = "Cannot release more stock than reserved"

\* C20 witness: a fulfilling release of more than a positive reservedStock
\* has been answered 400.
C20_Witness ==
    /\ last.req.op = "release"
    /\ last.req.fulfill
    /\ last.req.orderId # ""
    /\ HasActive(last.before, last.req.productId)
    /\ Active(last.before, last.req.productId).reservedStock > 0
    /\ Active(last.before, last.req.productId).reservedStock < last.req.quantity
    /\ last.status = 400

(***************************************************************************)
(* SpecScenario: the worked example, with the requests answered recorded   *)
(***************************************************************************)
\* Requests answered in one run of the example.
MaxScenarioRequests == 4

ScenarioStocks == {50}
ScenarioQuantities == {10, 45}
ScenarioOrders == {"A", "B"}

Answered(r, status) == [req |-> r, status |-> status]

ScenarioHandle(r) ==
    /\ Len(hist) < MaxScenarioRequests
    /\ LET o == route(db, r)
       IN  /\ db' = o.coll
           /\ hist' = Append(hist, Answered(r, o.status))
    /\ UNCHANGED <<last, prev, inflight, applied>>
    /\ UNCHANGED <<messaging, rest>>

ScenarioCreate ==
    \E p \in ProductIds, s \in ScenarioStocks :
        /\ Len(hist) < MaxScenarioRequests
        /\ ScenarioHandle(CreateReq(p, s))

ScenarioReserve ==
    \E p \in ProductIds, q \in ScenarioQuantities, o \in ScenarioOrders :
        /\ Len(hist) < MaxScenarioRequests
        /\ ScenarioHandle(ReserveReq(p, q, o))

ScenarioRelease ==
    \E p \in ProductIds, q \in ScenarioQuantities, o \in ScenarioOrders, f \in BOOLEAN :
        /\ Len(hist) < MaxScenarioRequests
        /\ ScenarioHandle(ReleaseReq(p, q, o, f))

NextScenario ==
    \/ ScenarioCreate
    \/ ScenarioReserve
    \/ ScenarioRelease

SpecScenario == Init /\ [][NextScenario]_vars

\* The example's requests, after the create that gives {currentStock: 50}.
Script ==
    << CreateReq("p1", 50), ReserveReq("p1", 10, "A"), ReserveReq("p1", 45, "B"),
       ReleaseReq("p1", 10, "A", TRUE) >>

Requests(h) == [i \in 1..Len(h) |-> h[i].req]

Statuses(h) == [i \in 1..Len(h) |-> h[i].status]

\* The movements appended after the create's own.
AppendedTypes(doc) ==
    [i \in 1..(Len(doc.movements) - 1) |->
        <<doc.movements[i + 1].type, doc.movements[i + 1].quantity,
          doc.movements[i + 1].reference>>]

\* C8: from {50, 0}: reserve 10 for A gives {50, 10}; reserve 45 for B is then
\* rejected; release 10 for A with fulfill gives {40, 0}; the movements
\* appended are exactly reserved 10, out 10.
C8_Scenario ==
    /\ Requests(hist) = SubSeq(Script, 1, 1)
       => /\ Statuses(hist) = <<201>>
          /\ db[1].currentStock = 50 /\ db[1].reservedStock = 0
          /\ AppendedTypes(db[1]) = <<>>
    /\ Requests(hist) = SubSeq(Script, 1, 2)
       => /\ Statuses(hist) = <<201, 200>>
          /\ db[1].currentStock = 50 /\ db[1].reservedStock = 10
          /\ AppendedTypes(db[1]) = << <<"reserved", 10, "A">> >>
    /\ Requests(hist) = SubSeq(Script, 1, 3)
       => /\ Statuses(hist) = <<201, 200, 400>>
          /\ db[1].currentStock = 50 /\ db[1].reservedStock = 10
          /\ db[1].availableStock = 40
          /\ AppendedTypes(db[1]) = << <<"reserved", 10, "A">> >>
    /\ Requests(hist) = Script
       => /\ Statuses(hist) = <<201, 200, 400, 200>>
          /\ db[1].currentStock = 40 /\ db[1].reservedStock = 0
          /\ AppendedTypes(db[1]) = << <<"reserved", 10, "A">>, <<"out", 10, "A">> >>

C8_Witness ==
    /\ Requests(hist) = Script
    /\ Statuses(hist) = <<201, 200, 400, 200>>
    /\ db[1].currentStock = 40

(***************************************************************************)
(* SpecRace: handlers interleaved at their awaits.  A handler runs alone   *)
(* up to `await Inventory.findOne(...)`, which reads the collection, and   *)
(* again from there to `await inventory.save()`, which writes it; between  *)
(* the two another request's read or write may take place.                 *)
(***************************************************************************)
Clients == {"c1", "c2"}

RaceStocks == {2}
RaceQuantities == {1, 2}
RaceOrders == {"A"}
RaceTypes == {"in", "out", "adjustment"}
RaceReasons == {"recount"}

\* A handler suspended at its save: the request, the position and the copy
\* of the document findOne gave it (NoDoc for POST /, which found none).
Suspended(r, i, loaded) == [req |-> r, pos |-> i, loaded |-> loaded]

Idle == Suspended(NoRequest, NoDoc, NewInventory("", 0))

InFlight == {c \in Clients : inflight[c] # Idle}

InitRace ==
    /\ db = <<>>
    /\ last = NoneYet
    /\ prev = NoneYet
    /\ hist = <<>>
    /\ inflight = [c \in Clients |-> Idle]
    /\ applied = <<>>
    /\ orderService = OrderServiceLoaded
    /\ stamps = NoStamps
    /\ gateway = GatewayLoaded
    /\ server = ServerLoaded
    /\ HelperLoaded

\* The handler from its first line to the result of findOne: it answers at
\* once (body check, 404, duplicate) or is suspended with what it loaded.
Begin(c, r) ==
    /\ inflight[c] = Idle
    /\ TotalMovements(db) + Cardinality(InFlight) < MaxMovements
    /\ LET i == findOne(db, r.productId, r.op # "create")
           answersAtOnce ==
               \/ bodyCheck(r) # ""
               \/ (r.op = "create" /\ i # NoDoc)
               \/ (r.op # "create" /\ i = NoDoc)
       IN  inflight' = [inflight EXCEPT ![c] =
               IF answersAtOnce THEN Idle
               ELSE IF r.op = "create" THEN Suspended(r, NoDoc, Idle.loaded)
               ELSE Suspended(r, i, db[i])]
    /\ UNCHANGED <<db, last, prev, hist, applied>>
    /\ UNCHANGED <<messaging, rest>>

BeginCreate ==
    \E c \in Clients, p \in ProductIds, s \in RaceStocks :
        /\ inflight[c] = Idle
        /\ Begin(c, CreateReq(p, s))

BeginStock ==
    \E c \in Clients, p \in ProductIds, q \in RaceQuantities, t \in RaceTypes,
       rs \in RaceReasons :
        /\ inflight[c] = Idle
        /\ Begin(c, StockReq(p, q, t, rs))

BeginReserve ==
    \E c \in Clients, p \in ProductIds, q \in RaceQuantities, o \in RaceOrders :
        /\ inflight[c] = Idle
        /\ Begin(c, ReserveReq(p, q, o))

BeginRelease ==
    \E c \in Clients, p \in ProductIds, q \in RaceQuantities, o \in RaceOrders,
       f \in BOOLEAN :
        /\ inflight[c] = Idle
        /\ Begin(c, ReleaseReq(p, q, o, f))

\* The handler from the result of findOne to its response: the checks and
\* changes on its copy, then the save against the collection as it is now.
Finish(c) ==
    /\ inflight[c] # Idle
    /\ LET r == inflight[c].req
           o == IF r.op = "create"
                THEN insertAndAnswer(db, createBody(r.productId, r.quantity))
                ELSE LET a == handlerBody(r, inflight[c].loaded)
                     IN  IF a.status # 0 THEN Outcome(a.status, a.message, db)
                         ELSE saveAndAnswer(db, inflight[c].pos, inflight[c].loaded, a.doc)
       IN  /\ db' = o.coll
           /\ applied' = IF o.status \in {200, 201} THEN Append(applied, r) ELSE applied
    /\ inflight' = [inflight EXCEPT ![c] = Idle]
    /\ UNCHANGED <<last, prev, hist>>
    /\ UNCHANGED <<messaging, rest>>

FinishRequest ==
    \E c \in Clients :
        /\ inflight[c] # Idle
        /\ Finish(c)

NextRace ==
    \/ BeginCreate
    \/ BeginStock
    \/ BeginReserve
    \/ BeginRelease
    \/ FinishRequest

SpecRace == InitRace /\ [][NextRace]_vars

(***************************************************************************)
(* Ledger claims under interleaving (SpecRace)                             *)
(***************************************************************************)
\* C2: in every persisted record availableStock = currentStock - reservedStock.
C2_AvailableDerived ==
    \A i \in 1..Len(db) :
        db[i].availableStock = db[i].currentStock - db[i].reservedStock

\* The requests of seq handled one after the other, each to its response.
RECURSIVE Serial(_, _, _)
Serial(coll, seq, k) ==
    IF k > Len(seq) THEN [ok |-> TRUE, coll |-> coll]
    ELSE LET o == route(coll, seq[k])
         IN  IF o.status \in {200, 201} THEN Serial(o.coll, seq, k + 1)
             ELSE [ok |-> FALSE, coll |-> coll]

Orders(n) == {f \in [1..n -> 1..n] : \A i, j \in 1..n : f[i] = f[j] => i = j}

SameCounters(a, b) ==
    /\ Len(a) = Len(b)
    /\ \A i \in 1..Len(a) :
        /\ a[i].currentStock = b[i].currentStock
        /\ a[i].reservedStock = b[i].reservedStock

\* A reserve, a release or a stock-out (or the create of the record).
RacingKind(r) ==
    \/ r.op \in {"create", "reserve", "release"}
    \/ (r.op = "stock" /\ r.type = "out")

\* C4: when reserve, release and stock-out requests on a product interleave,
\* reservedStock never exceeds currentStock, and once all are answered the
\* counters are those of handling the requests answered 2xx one after the
\* other in some order.
C4_NoLostUpdate ==
    (\A k \in 1..Len(applied) : RacingKind(applied[k])) =>
        /\ \A i \in 1..Len(db) : db[i].reservedStock <= db[i].currentStock
        /\ InFlight = {} =>
            \E f \in Orders(Len(applied)) :
                LET s == Serial(<<>>, [k \in 1..Len(applied) |-> applied[f[k]]], 1)
                IN  s.ok /\ SameCounters(s.coll, db)

(***************************************************************************)
(* SpecMQ: the RabbitMQHelper against a broker.  Every await of the helper *)
(* is a point where the other calls, the broker and the network may act.   *)
(***************************************************************************)
\* connect(): the test that makes a repeated call return at once.
Connected(h) == h.isConnected /\ h.connection # null /\ h.channel # null

\* publishEvent / subscribeToEvents: the test for the lazy connect().
NeedsConnect(h) == ~h.isConnected \/ h.channel = null

\* amqplib: operations on a channel succeed only while it is open.
ChannelOpen(b, n) == n # null /\ b.conns[n].open /\ b.conns[n].chan = "open"

\* connect() from its first line to its first await.
connectEnterMutantNoTest(h, arg) == Call("amqp.connect", null, null, 0, arg)

connectEnter(h, arg) ==
    IF Connected(h) THEN Call("connected", null, null, 0, arg)
    ELSE Call("amqp.connect", null, null, 0, arg)

\* reconnect(): counts the attempt and arms the timer, unless the budget
\* is used up.
reconnectMutantNoLimit(h, timers) ==
    [helper |-> [h EXCEPT !.reconnectAttempts = @ + 1], timers |-> timers + 1]

reconnect(h, timers) ==
    IF h.reconnectAttempts >= maxReconnectAttempts
    THEN [helper |-> h, timers |-> timers]
    ELSE [helper |-> [h EXCEPT !.reconnectAttempts = @ + 1], timers |-> timers + 1]

\* The 'error' and 'close' listeners of a closing connection, once per
\* registered pair.
RECURSIVE emitClose(_, _, _)
emitClose(h, timers, listeners) ==
    IF listeners = 0 THEN [helper |-> h, timers |-> timers]
    ELSE LET r == reconnect([h EXCEPT !.isConnected = FALSE], timers)
         IN  emitClose(r.helper, r.timers, listeners - 1)

\* Broker side of a channel, of a connection, going away: its consumers
\* are cancelled, its unacked messages go back to the queue.
channelClosed(c) ==
    [c EXCEPT !.chan = IF @ = "open" THEN "closed" ELSE @,
              !.limited = 0, !.unlimited = 0]

connectionClosed(c) == [channelClosed(c) EXCEPT !.open = FALSE]

requeue(ms, chans) ==
    [m \in DOMAIN ms |->
        IF ms[m].status = "unacked" /\ ms[m].chan \in chans
        THEN Message("ready", null, 0, ms[m].threw)
        ELSE ms[m]]

OpenConnections(b) == {n \in DOMAIN b.conns : b.conns[n].open}

RECURSIVE Listeners(_, _)
Listeners(b, S) ==
    IF S = {} THEN 0
    ELSE LET n == CHOOSE x \in S : TRUE
         IN  b.conns[n].listeners + Listeners(b, S \ {n})

\* The connections in S are lost: sockets closed, listeners run.
Lost(S, up) ==
    LET e == emitClose(helper, proc.timers, Listeners(broker, S))
    IN  /\ broker' = [broker EXCEPT
               !.up = up,
               !.conns = [n \in DOMAIN @ |->
                             IF n \in S THEN connectionClosed(@[n]) ELSE @[n]]]
        /\ msgs' = requeue(msgs, S)
        /\ helper' = e.helper
        /\ proc' = [proc EXCEPT !.timers = e.timers]

\* connect(): the catch block.
connectCatch(h) == [h EXCEPT !.isConnected = FALSE]

(* ---- connect() ---- *)
\* A direct call of connect(), as the services make at startup.
ConnectCall ==
    /\ ~proc.exited
    /\ calls["connect"].pc = "idle"
    /\ proc.made < MaxCalls
    /\ proc' = [proc EXCEPT !.made = @ + 1]
    /\ calls' = [calls EXCEPT !["connect"] = connectEnter(helper, TRUE)]
    /\ UNCHANGED <<helper, broker, msgs, running>>
    /\ obs' = Quiet
    /\ UNCHANGED <<ledger, rest>>

\* The setTimeout callback of reconnect() runs connect().
TimerFires ==
    /\ ~proc.exited
    /\ proc.timers > 0
    /\ calls["timer"].pc = "idle"
    /\ proc' = [proc EXCEPT !.timers = @ - 1]
    /\ calls' = [calls EXCEPT !["timer"] = connectEnter(helper, TRUE)]
    /\ UNCHANGED <<helper, broker, msgs, running>>
    /\ obs' = Quiet
    /\ UNCHANGED <<ledger, rest>>

\* await amqp.connect(url) settles; on success createChannel() is called
\* on the new connection.
AmqpConnectSettles ==
    \E c \in Callers :
        /\ ~proc.exited
        /\ calls[c].pc = "amqp.connect"
        /\ broker.up => Len(broker.conns) < MaxConnections
        /\ IF broker.up
           THEN LET n == Len(broker.conns) + 1
                IN  /\ broker' = [broker EXCEPT !.conns = Append(@, NewConnection)]
                    /\ helper' = [helper EXCEPT !.connection = n]
                    /\ calls' = [calls EXCEPT ![c] =
                                    Call("createChannel", n, null, 0, @.arg)]
           ELSE /\ helper' = connectCatch(helper)
                /\ calls' = [calls EXCEPT ![c].pc = "threw"]
                /\ UNCHANGED broker
        /\ UNCHANGED <<msgs, running, proc>>
        /\ obs' = Quiet
        /\ UNCHANGED <<ledger, rest>>

\* await createChannel() settles; the listeners go on this.connection and
\* the first assertExchange is issued on this.channel.
CreateChannelSettles ==
    \E c \in Callers :
        /\ ~proc.exited
        /\ calls[c].pc = "createChannel"
        /\ LET n == calls[c].own
           IN  IF ~broker.conns[n].open
               THEN /\ helper' = connectCatch(helper)
                    /\ calls' = [calls EXCEPT ![c].pc = "threw"]
                    /\ UNCHANGED broker
               ELSE IF helper.connection = null
               THEN /\ helper' = connectCatch([helper EXCEPT !.channel = n])
                    /\ broker' = [broker EXCEPT !.conns[n].chan = "open"]
                    /\ calls' = [calls EXCEPT ![c].pc = "threw"]
               ELSE /\ helper' = [helper EXCEPT !.channel = n]
                    /\ broker' = [broker EXCEPT
                           !.conns[n].chan = "open",
                           !.conns[helper.connection].listeners = @ + 1]
                    /\ calls' = [calls EXCEPT ![c] =
                                    Call("assertExchange", n, n, 1, @.arg)]
        /\ UNCHANGED <<msgs, running, proc>>
        /\ obs' = Quiet
        /\ UNCHANGED <<ledger, rest>>

\* channel.assertExchange(name, 'topic', { durable: true }) at the broker:
\* the exchange exists afterwards; declaring it again with the arguments it
\* has declares nothing new.
assertExchangeMutantRedeclares(exchanges, k) ==
    IF Exchanges[k] \in exchanges THEN exchanges \ {Exchanges[k]}
    ELSE exchanges \cup {Exchanges[k]}

assertExchange(exchanges, k) == exchanges \cup {Exchanges[k]}

\* await this.channel.assertExchange(...) settles; the next one is issued
\* on this.channel, and after the third connect() returns.
AssertExchangeSettles ==
    \E c \in Callers :
        /\ ~proc.exited
        /\ calls[c].pc = "assertExchange"
        /\ LET k == calls[c].k
           IN  IF ~ChannelOpen(broker, calls[c].target)
               THEN /\ helper' = connectCatch(helper)
                    /\ calls' = [calls EXCEPT ![c].pc = "threw"]
                    /\ UNCHANGED broker
               ELSE /\ broker' = [broker EXCEPT !.exchanges = assertExchange(@, k)]
                    /\ IF k = Len(Exchanges)
                       THEN /\ helper' = [helper EXCEPT !.isConnected = TRUE,
                                                        !.reconnectAttempts = 0]
                            /\ calls' = [calls EXCEPT ![c].pc = "connected"]
                       ELSE IF helper.channel = null
                       THEN /\ helper' = connectCatch(helper)
                            /\ calls' = [calls EXCEPT ![c].pc = "threw"]
                       ELSE /\ calls' = [calls EXCEPT ![c] =
                                    Call("assertExchange", @.own, helper.channel,
                                         k + 1, @.arg)]
                            /\ UNCHANGED helper
        /\ UNCHANGED <<msgs, running, proc>>
        /\ obs' = Quiet
        /\ UNCHANGED <<ledger, rest>>

\* connect() has returned or thrown to a direct caller or to the timer
\* callback, which only logs.
ConnectReturns ==
    \E c \in {"connect", "timer"} :
        /\ ~proc.exited
        /\ calls[c].pc \in {"connected", "threw"}
        /\ calls' = [calls EXCEPT ![c] = NoCall]
        /\ UNCHANGED <<helper, broker, msgs, running, proc>>
        /\ obs' = Quiet
        /\ UNCHANGED <<ledger, rest>>

(* ---- publishEvent ---- *)
\* What the try block does after the lazy connect: JSON.stringify, then
\* this.channel.publish, whose result is the channel's.
publishBody(h, b, ok, accepted) ==
    IF ~ok THEN "threw"
    ELSE IF ~ChannelOpen(b, h.channel) THEN "threw"
    ELSE IF accepted THEN "published" ELSE "refused"

\* The same without the catch block.
publishReturnMutantNoCatch(outcome) ==
    IF outcome = "published" THEN "true"
    ELSE IF outcome = "refused" THEN "false" ELSE "raised"

\* What publishEvent gives its caller for each outcome of the try block.
publishReturn(outcome) ==
    IF outcome = "published" THEN "true" ELSE "false"

\* this.channel.publish and what the broker does with the message: it is
\* written to the channel also when publish answers false (buffer full),
\* and an unknown exchange makes the broker close the channel.
Send(ok, accepted) ==
    LET outcome == publishBody(helper, broker, ok, accepted)
        written == outcome \in {"published", "refused"}
    IN  /\ obs' = [Quiet EXCEPT !.pub =
                      Published(publishReturn(outcome), outcome, broker.up)]
        /\ IF written /\ TheExchange \notin broker.exchanges
           THEN /\ broker' = [broker EXCEPT !.conns[helper.channel] = channelClosed(@)]
                /\ msgs' = requeue(msgs, {helper.channel})
           ELSE /\ broker' = broker
                /\ msgs' = msgs

\* publishEvent from its first line to its first await, or to its return
\* when the helper is connected.
publishEventEnter(ok, accepted) ==
    /\ ~proc.exited
    /\ calls["publish"].pc = "idle"
    /\ proc.made < MaxCalls
    /\ proc' = [proc EXCEPT !.made = @ + 1]
    /\ IF NeedsConnect(helper)
       THEN /\ calls' = [calls EXCEPT !["publish"] = connectEnter(helper, ok)]
            /\ UNCHANGED <<broker, msgs>>
            /\ obs' = Quiet
       ELSE /\ Send(ok, accepted)
            /\ UNCHANGED calls
    /\ UNCHANGED <<helper, running>>

\* publishEvent after await this.connect().
publishEventResume(accepted) ==
    /\ ~proc.exited
    /\ calls["publish"].pc \in {"connected", "threw"}
    /\ IF calls["publish"].pc = "threw"
       THEN /\ obs' = [Quiet EXCEPT !.pub =
                   Published(publishReturn("connect failed"), "connect failed",
                             broker.up)]
            /\ UNCHANGED <<broker, msgs>>
       ELSE Send(calls["publish"].arg, accepted)
    /\ calls' = [calls EXCEPT !["publish"] = NoCall]
    /\ UNCHANGED <<helper, running, proc>>

\* publishEvent called on the helper directly.
PublishCall ==
    \E ok \in BOOLEAN, accepted \in BOOLEAN :
        /\ publishEventEnter(ok, accepted)
        /\ UNCHANGED <<ledger, rest>>

PublishResumes ==
    \E accepted \in BOOLEAN :
        /\ publishEventResume(accepted)
        /\ UNCHANGED <<ledger, rest>>

(* ---- subscribeToEvents ---- *)
QueueOps == <<"assertQueue", "bindQueue", "prefetch", "consume">>

\* await this.channel.<op>(...): the call is issued on this.channel as it
\* is at that moment; on null it throws into the catch block, which rethrows.
channelCall(h, op) ==
    IF h.channel = null THEN NoCall ELSE Call(op, null, h.channel, 0, TRUE)

subscribeStep(h, op) == IF h.channel = null THEN "raised" ELSE "none"

SubscribeCall ==
    /\ ~proc.exited
    /\ calls["subscribe"].pc = "idle"
    /\ proc.made < MaxCalls
    /\ proc' = [proc EXCEPT !.made = @ + 1]
    /\ calls' = [calls EXCEPT !["subscribe"] =
                    IF NeedsConnect(helper) THEN connectEnter(helper, TRUE)
                    ELSE channelCall(helper, QueueOps[1])]
    /\ obs' = [Quiet EXCEPT !.sub = "none"]
    /\ UNCHANGED <<helper, broker, msgs, running>>
    /\ UNCHANGED <<ledger, rest>>

\* subscribeToEvents after await this.connect().
SubscribeResumes ==
    /\ ~proc.exited
    /\ calls["subscribe"].pc \in {"connected", "threw"}
    /\ IF calls["subscribe"].pc = "threw"
       THEN /\ calls' = [calls EXCEPT !["subscribe"] = NoCall]
            /\ obs' = [Quiet EXCEPT !.sub = "raised"]
       ELSE /\ calls' = [calls EXCEPT !["subscribe"] = channelCall(helper, QueueOps[1])]
            /\ obs' = [Quiet EXCEPT !.sub = subscribeStep(helper, QueueOps[1])]
    /\ UNCHANGED <<helper, broker, msgs, running, proc>>
    /\ UNCHANGED <<ledger, rest>>

\* One of assertQueue, bindQueue, prefetch(1), consume settles and the
\* next is issued; after consume the subscription is in place.
QueueOpSettles ==
    \E i \in DOMAIN QueueOps :
        LET t == calls["subscribe"].target
            c == broker.conns[t]
        IN  /\ ~proc.exited
            /\ calls["subscribe"].pc = QueueOps[i]
            /\ IF ~ChannelOpen(broker, t)
               THEN /\ calls' = [calls EXCEPT !["subscribe"] = NoCall]
                    /\ obs' = [Quiet EXCEPT !.sub = "raised"]
                    /\ UNCHANGED <<broker, msgs>>
               ELSE IF QueueOps[i] = "bindQueue" /\ TheExchange \notin broker.exchanges
               THEN /\ broker' = [broker EXCEPT !.conns[t] = channelClosed(@)]
                    /\ msgs' = requeue(msgs, {t})
                    /\ calls' = [calls EXCEPT !["subscribe"] = NoCall]
                    /\ obs' = [Quiet EXCEPT !.sub = "raised"]
               ELSE /\ broker' =
                        CASE QueueOps[i] = "assertQueue" ->
                                 [broker EXCEPT !.queue = TRUE]
                          [] QueueOps[i] = "bindQueue" ->
                                 [broker EXCEPT !.bound = TRUE]
                          [] QueueOps[i] = "prefetch" ->
                                 [broker EXCEPT !.conns[t].prefetch = TRUE]
                          [] QueueOps[i] = "consume" ->
                                 IF c.prefetch
                                 THEN [broker EXCEPT !.conns[t].limited = @ + 1]
                                 ELSE [broker EXCEPT !.conns[t].unlimited = @ + 1]
                    /\ UNCHANGED msgs
                    /\ IF i = Len(QueueOps)
                       THEN /\ calls' = [calls EXCEPT !["subscribe"] = NoCall]
                            /\ obs' = [Quiet EXCEPT !.sub = "consuming"]
                       ELSE /\ calls' = [calls EXCEPT !["subscribe"] =
                                            channelCall(helper, QueueOps[i + 1])]
                            /\ obs' = [Quiet EXCEPT !.sub =
                                          subscribeStep(helper, QueueOps[i + 1])]
            /\ UNCHANGED <<helper, running, proc>>
            /\ UNCHANGED <<ledger, rest>>

(* ---- the consume callback ---- *)
Unacked(ms, n) ==
    {m \in DOMAIN ms : ms[m].status = "unacked" /\ ms[m].chan = n}

\* The broker may push a message on channel n: a consumer without limit,
\* or fewer unacked messages than consumers under prefetch(1).
CanDeliver(b, ms, n) ==
    /\ ChannelOpen(b, n)
    /\ \/ b.conns[n].unlimited > 0
       \/ Cardinality(Unacked(ms, n)) < b.conns[n].limited

\* The broker delivers a ready message; the callback parses it and calls
\* the handler.
Deliver ==
    \E m \in DOMAIN msgs, n \in DOMAIN broker.conns :
        /\ ~proc.exited
        /\ msgs[m].status = "ready"
        /\ CanDeliver(broker, msgs, n)
        /\ LET tag == broker.conns[n].tags + 1
           IN  /\ msgs' = [msgs EXCEPT ![m] =
                              Message("unacked", n, tag, @.threw)]
               /\ broker' = [broker EXCEPT !.conns[n].tags = tag]
               /\ running' = running \cup {Invocation(m, n, tag)}
        /\ obs' = Quiet
        /\ UNCHANGED <<helper, calls, proc>>
        /\ UNCHANGED <<ledger, rest>>

\* this.channel.ack(message) in the try block, this.channel.nack(message,
\* false, false) in the catch block: the kind of the settlement, and the
\* channel it goes out on (null: the call threw, on a null or closed
\* channel, and from the catch block it throws out of the callback).
settlementKind(throws) == IF throws THEN "nack" ELSE "ack"

settlementChannel(h, b) == IF ChannelOpen(b, h.channel) THEN h.channel ELSE null

\* The process ends: every socket it holds is dropped.
disconnected(b) ==
    [b EXCEPT !.conns = [n \in DOMAIN @ |-> connectionClosed(@[n])]]

terminated(p) == [p EXCEPT !.closing = NotClosing, !.timers = 0, !.exited = TRUE]

\* The handler returns or throws (JSON.parse throwing takes the same path)
\* and the callback settles.  The broker looks the delivery tag up on the
\* channel the settlement arrived on; an unknown tag closes that channel.
\* Neither failure has a handler in the process: nack throwing out of the
\* catch block rejects the promise of the async callback, and a channel
\* closed by the broker emits 'error' on a channel that has no listener;
\* on Node.js 16 or higher (README.md:79) either ends the process.
HandlerFinishes ==
    \E d \in running, throws \in BOOLEAN :
        LET ch == settlementChannel(helper, broker)
            hits == {m \in Unacked(msgs, ch) : msgs[m].tag = d.tag}
            hit == IF hits = {} THEN null ELSE CHOOSE m \in hits : TRUE
            ms == [msgs EXCEPT ![d.msg].threw = @ \/ throws]
        IN  /\ ~proc.exited
            /\ IF ch = null \/ hit = null
               THEN /\ msgs' = requeue(ms, DOMAIN broker.conns)
                    /\ broker' = disconnected(broker)
                    /\ running' = {}
                    /\ calls' = [c \in Callers |-> NoCall]
                    /\ proc' = terminated(proc)
               ELSE /\ msgs' = [ms EXCEPT ![hit] =
                                   Message(IF throws THEN "dropped" ELSE "acked",
                                           null, 0, @.threw)]
                    /\ running' = running \ {d}
                    /\ UNCHANGED <<broker, calls, proc>>
            /\ obs' = [Quiet EXCEPT !.settle =
                          Settled(d.msg, d.chan, throws, ChannelOpen(broker, d.chan),
                                  ch, IF ch = null THEN "none" ELSE settlementKind(throws),
                                  IF ch = null THEN null ELSE hit)]
            /\ UNCHANGED helper
            /\ UNCHANGED <<ledger, rest>>

(* ---- the network and the broker ---- *)
\* One connection is lost while the broker stays reachable.
ConnectionLost ==
    \E n \in OpenConnections(broker) :
        /\ ~proc.exited
        /\ Lost({n}, TRUE)
        /\ UNCHANGED <<running, calls>>
        /\ obs' = Quiet
        /\ UNCHANGED <<ledger, rest>>

\* The broker goes down: every connection is lost, none can be made.
BrokerStops ==
    /\ ~proc.exited
    /\ broker.up
    /\ Lost(OpenConnections(broker), FALSE)
    /\ UNCHANGED <<running, calls>>
    /\ obs' = Quiet
    /\ UNCHANGED <<ledger, rest>>

BrokerStarts ==
    /\ ~proc.exited
    /\ ~broker.up
    /\ broker' = [broker EXCEPT !.up = TRUE]
    /\ UNCHANGED <<helper, msgs, running, calls, proc>>
    /\ obs' = Quiet
    /\ UNCHANGED <<ledger, rest>>

\* Another service publishes a message that the binding routes to the queue.
Produce ==
    /\ ~proc.exited
    /\ broker.up
    /\ broker.bound
    /\ Len(msgs) < MaxMessages
    /\ msgs' = Append(msgs, Message("ready", null, 0, FALSE))
    /\ obs' = Quiet
    /\ UNCHANGED <<helper, broker, running, calls, proc>>
    /\ UNCHANGED <<ledger, rest>>

(* ---- close() and the shutdown handler ---- *)
\* close() from its first line to its first await; exit: called by the
\* SIGINT/SIGTERM handler.
CloseCall ==
    \E exit \in BOOLEAN :
        /\ ~proc.exited
        /\ proc.closing.pc = "idle"
        /\ proc.made < MaxCalls
        /\ IF helper.channel # null
           THEN /\ proc' = [proc EXCEPT !.made = @ + 1, !.closing =
                               Closing("channel.close", helper.channel, exit)]
                /\ UNCHANGED helper
           ELSE IF helper.connection # null
           THEN /\ proc' = [proc EXCEPT !.made = @ + 1, !.closing =
                               Closing("connection.close", helper.connection, exit)]
                /\ UNCHANGED helper
           ELSE /\ proc' = [proc EXCEPT !.made = @ + 1, !.closing =
                               Closing("done", null, exit)]
                /\ helper' = [helper EXCEPT !.isConnected = FALSE]
        /\ UNCHANGED <<broker, msgs, running, calls>>
        /\ obs' = Quiet
        /\ UNCHANGED <<ledger, rest>>

\* await this.channel.close() settles.
ChannelCloseSettles ==
    LET t == proc.closing.target
        exit == proc.closing.exit
    IN  /\ ~proc.exited
        /\ proc.closing.pc = "channel.close"
        /\ IF ~ChannelOpen(broker, t)
           THEN /\ proc' = [proc EXCEPT !.closing = Closing("done", null, exit)]
                /\ UNCHANGED <<helper, broker, msgs>>
           ELSE /\ broker' = [broker EXCEPT !.conns[t] = channelClosed(@)]
                /\ msgs' = requeue(msgs, {t})
                /\ IF helper.connection # null
                   THEN /\ helper' = [helper EXCEPT !.channel = null]
                        /\ proc' = [proc EXCEPT !.closing =
                               Closing("connection.close", helper.connection, exit)]
                   ELSE /\ helper' = [helper EXCEPT !.channel = null,
                                                    !.isConnected = FALSE]
                        /\ proc' = [proc EXCEPT !.closing = Closing("done", null, exit)]
        /\ UNCHANGED <<running, calls>>
        /\ obs' = Quiet
        /\ UNCHANGED <<ledger, rest>>

\* await this.connection.close() settles; the connection emits 'close'
\* before close() goes on.
ConnectionCloseSettles ==
    LET t == proc.closing.target
        exit == proc.closing.exit
    IN  /\ ~proc.exited
        /\ proc.closing.pc = "connection.close"
        /\ IF ~broker.conns[t].open
           THEN /\ proc' = [proc EXCEPT !.closing = Closing("done", null, exit)]
                /\ UNCHANGED <<helper, broker, msgs>>
           ELSE LET e == emitClose(helper, proc.timers, broker.conns[t].listeners)
                IN  /\ broker' = [broker EXCEPT !.conns[t] = connectionClosed(@)]
                    /\ msgs' = requeue(msgs, {t})
                    /\ helper' = [e.helper EXCEPT !.connection = null,
                                                  !.isConnected = FALSE]
                    /\ proc' = [proc EXCEPT !.timers = e.timers,
                                            !.closing = Closing("done", null, exit)]
        /\ UNCHANGED <<running, calls>>
        /\ obs' = Quiet
        /\ UNCHANGED <<ledger, rest>>

\* close() has returned; the shutdown handler calls process.exit(0), which
\* ends every call and callback and drops the sockets.
CloseReturns ==
    /\ ~proc.exited
    /\ proc.closing.pc = "done"
    /\ IF proc.closing.exit
       THEN /\ proc' = [proc EXCEPT !.closing = NotClosing, !.timers = 0,
                                    !.exited = TRUE]
            /\ broker' = [broker EXCEPT !.conns =
                             [n \in DOMAIN @ |-> connectionClosed(@[n])]]
            /\ msgs' = requeue(msgs, DOMAIN broker.conns)
            /\ running' = {}
            /\ calls' = [c \in Callers |-> NoCall]
       ELSE /\ proc' = [proc EXCEPT !.closing = NotClosing]
            /\ UNCHANGED <<broker, msgs, running, calls>>
    /\ UNCHANGED <<helper>>
    /\ obs' = Quiet
    /\ UNCHANGED <<ledger, rest>>

NextMQ ==
    \/ ConnectCall
    \/ TimerFires
    \/ AmqpConnectSettles
    \/ CreateChannelSettles
    \/ AssertExchangeSettles
    \/ ConnectReturns
    \/ PublishCall
    \/ PublishResumes
    \/ SubscribeCall
    \/ SubscribeResumes
    \/ QueueOpSettles
    \/ Produce
    \/ Deliver
    \/ HandlerFinishes
    \/ ConnectionLost
    \/ BrokerStops
    \/ BrokerStarts
    \/ CloseCall
    \/ ChannelCloseSettles
    \/ ConnectionCloseSettles
    \/ CloseReturns

SpecMQ == Init /\ [][NextMQ]_vars

\* The publisher alone: publishEvent with its lazy connect(), the reconnect
\* timer, close() and the broker; nothing subscribes.
NextPublish ==
    \/ TimerFires
    \/ AmqpConnectSettles
    \/ CreateChannelSettles
    \/ AssertExchangeSettles
    \/ ConnectReturns
    \/ PublishCall
    \/ PublishResumes
    \/ ConnectionLost
    \/ BrokerStops
    \/ BrokerStarts
    \/ CloseCall
    \/ ChannelCloseSettles
    \/ ConnectionCloseSettles
    \/ CloseReturns

SpecPublish == Init /\ [][NextPublish]_vars

(***************************************************************************)
(* Messaging claims                                                        *)
(***************************************************************************)
\* C9: for every message delivered to a subscription exactly one settlement
\* is sent, an ack when the handler completed and a reject without requeue
\* when it threw, and a message whose handler threw is removed from the
\* queue and not redelivered.  Read in the code's favour: required only of
\* callbacks that finish while the channel the message was delivered on is
\* still open, so that a settlement can be sent at all.
C9_OneSettlementPerDelivery ==
    LET s == obs.settle
    IN  (s.msg # null /\ s.deliveryOpen) =>
            /\ s.sentOn = s.chan
            /\ s.kind = settlementKind(s.threw)
            /\ s.hit = s.msg
            /\ msgs[s.msg].status = IF s.threw THEN "dropped" ELSE "acked"

\* C10: publishEvent never raises; it returns false whenever the broker is
\* disconnected, connect() fails, the try block throws or the channel
\* refuses the send, and true only when the channel accepted the message.
C10_PublishNeverRaises ==
    LET p == obs.pub
    IN  /\ p.result \in {"none", "true", "false"}
        /\ p.result = "true" => (p.outcome = "published" /\ p.up)
        /\ p.outcome \in {"connect failed", "threw", "refused"} => p.result = "false"
        /\ (p.result # "none" /\ ~p.up) => p.result = "false"

\* C10 witness: a publishEvent call made while the broker is down has
\* returned false after its connect() failed.
C10_Witness ==
    /\ obs.pub.result = "false"
    /\ obs.pub.outcome = "connect failed"
    /\ ~obs.pub.up

\* The connection manager alone: connect() called directly, the reconnect
\* timer, close() and the broker; nothing publishes or subscribes.
NextConnect ==
    \/ ConnectCall
    \/ TimerFires
    \/ AmqpConnectSettles
    \/ CreateChannelSettles
    \/ AssertExchangeSettles
    \/ ConnectReturns
    \/ ConnectionLost
    \/ BrokerStops
    \/ BrokerStarts
    \/ CloseCall
    \/ ChannelCloseSettles
    \/ ConnectionCloseSettles
    \/ CloseReturns

SpecConnect == Init /\ [][NextConnect]_vars

\* C12: at every point of every interleaving the process holds at most one
\* live broker connection.
C12_SingleConnection == Cardinality(OpenConnections(broker)) <= 1

\* C13: connect() called while the helper holds an established connection
\* (isConnected, with connection and channel set) returns at once: it opens
\* no connection, creates no channel, registers no listener and leaves the
\* helper's fields as they are.
C13_ConnectIdempotent ==
    [][(/\ calls["connect"].pc = "idle"
        /\ calls'["connect"].pc # "idle"
        /\ Connected(helper))
       => (/\ calls'["connect"].pc = "connected"
           /\ broker' = broker
           /\ helper' = helper)]_vars

\* C13 witness: connect() has returned at once on an established connection
\* that carries one listener pair.
C13_Witness ==
    /\ calls["connect"] = Call("connected", null, null, 0, TRUE)
    /\ Connected(helper)
    /\ ChannelOpen(broker, helper.channel)
    /\ broker.conns[helper.connection].listeners = 1

\* Reconnection after a loss: the manager's steps are taken whenever they
\* stay possible (a timer that is armed fires, an await settles); the
\* broker and the network do as they please, and nothing calls close().
NextReconnect ==
    \/ ConnectCall
    \/ TimerFires
    \/ AmqpConnectSettles
    \/ CreateChannelSettles
    \/ AssertExchangeSettles
    \/ ConnectReturns
    \/ ConnectionLost
    \/ BrokerStops
    \/ BrokerStarts

SpecReconnect ==
    /\ Init
    /\ [][NextReconnect]_vars
    /\ WF_vars(TimerFires)
    /\ WF_vars(AmqpConnectSettles)
    /\ WF_vars(CreateChannelSettles)
    /\ WF_vars(AssertExchangeSettles)
    /\ WF_vars(ConnectReturns)
    /\ WF_vars(BrokerStarts)

\* C14: after an unexpected connection loss the manager keeps making
\* automatic attempts until one succeeds or maxReconnectAttempts is
\* reached: from a state where a loss has been counted and the helper is
\* disconnected, it is eventually connected again or the budget is used up
\* (or the run has used all the connections of the model).
C14_ReconnectsUntilBudget ==
    [](  (helper.reconnectAttempts >= 1 /\ ~helper.isConnected)
      => <>(\/ helper.isConnected
            \/ helper.reconnectAttempts >= maxReconnectAttempts
            \/ Len(broker.conns) >= MaxConnections))

\* A helper that has used up, or all but used up, its reconnect budget:
\* connections lost before their connect() completed, each loss counted by
\* the 'close' listener, each timer's connect() failed, and close() has
\* cleared the fields since.
InitRetried ==
    /\ db = <<>>
    /\ last = NoneYet
    /\ prev = NoneYet
    /\ hist = <<>>
    /\ inflight = <<>>
    /\ applied = <<>>
    /\ orderService = OrderServiceLoaded
    /\ stamps = NoStamps
    /\ gateway = GatewayLoaded
    /\ server = ServerLoaded
    /\ helper \in {[RabbitMQHelper EXCEPT !.reconnectAttempts = a] :
                      a \in {maxReconnectAttempts - 1, maxReconnectAttempts}}
    /\ broker \in {Broker(up, <<>>, {Exchanges[k] : k \in DOMAIN Exchanges}, FALSE, FALSE) :
                      up \in BOOLEAN}
    /\ msgs = <<>>
    /\ running = {}
    /\ calls = [c \in Callers |-> NoCall]
    /\ proc = Process(0, NotClosing, 0, FALSE)
    /\ obs = Quiet

\* The connection manager from there.
SpecRetried == InitRetried /\ [][NextConnect]_vars

\* The publisher, and direct calls of connect(), from there.
NextGivenUp ==
    \/ NextPublish
    \/ ConnectCall

SpecGivenUp == InitRetried /\ [][NextGivenUp]_vars

\* C15: reconnectAttempts never exceeds maxReconnectAttempts, and once it
\* has reached it no step arms another reconnect timer.
C15_AttemptsCapped ==
    /\ [](helper.reconnectAttempts <= maxReconnectAttempts)
    /\ [][helper.reconnectAttempts >= maxReconnectAttempts
            => proc'.timers <= proc.timers]_vars

\* C15 witness: a connection carrying a listener pair has been lost with the
\* budget used up, and no timer is armed or running.
C15_Witness ==
    /\ helper.reconnectAttempts = maxReconnectAttempts
    /\ \E n \in DOMAIN broker.conns :
          ~broker.conns[n].open /\ broker.conns[n].listeners >= 1
    /\ proc.timers = 0
    /\ calls["timer"].pc = "idle"

\* Automatic reconnection has given up: the budget is used up, the helper is
\* disconnected, no timer is armed or running.
GaveUp ==
    /\ helper.reconnectAttempts >= maxReconnectAttempts
    /\ ~helper.isConnected
    /\ proc.timers = 0
    /\ calls["timer"].pc = "idle"

\* C16: once automatic reconnection has given up the manager stays
\* disconnected, so that publishEvent returns false and subscribeToEvents
\* fails, until an explicit connect() call succeeds: no step taken while no
\* explicit connect() is running connects the helper.
C16_StaysDownAfterGivingUp ==
    [][(GaveUp /\ calls["connect"].pc = "idle") => ~helper'.isConnected]_vars

\* C17: on a termination signal the channel is closed first, then the
\* connection, and the process exits only after both closes have completed
\* or failed: while close() waits for connection.close() the channel of that
\* connection is no longer open, and at the step with which the shutdown
\* handler's close() returns, so that process.exit is next, the helper's
\* channel and connection are either cleared or no longer open.
C17_ClosedBeforeExit ==
    [][/\ (proc'.closing.exit /\ proc'.closing.pc = "connection.close")
            => broker'.conns[proc'.closing.target].chan # "open"
       /\ (proc'.closing.exit /\ proc.closing.pc # "done" /\ proc'.closing.pc = "done")
            => /\ ~ChannelOpen(broker', helper'.channel)
               /\ helper'.connection # null
                    => ~broker'.conns[helper'.connection].open]_vars

\* C18: when a termination signal arrives while a handler is still
\* processing a message, that message's acknowledgement or rejection is sent
\* before the channel is closed: the step with which the shutdown handler's
\* channel.close() closes an open channel finds no handler still running for
\* a message delivered on that channel.
C18_SettledBeforeChannelClosed ==
    [][(/\ proc.closing.exit
        /\ proc.closing.pc = "channel.close"
        /\ proc'.closing.pc # "channel.close"
        /\ ChannelOpen(broker, proc.closing.target)
        /\ ~ChannelOpen(broker', proc.closing.target))
            => \A d \in running : d.chan # proc.closing.target]_vars

(***************************************************************************)
(* SpecOrders: the order routes publishing through the helper              *)
(***************************************************************************)
\* What a route does up to its write: the status code of its early return
\* or of its catch block with nothing written, or its success code with the
\* document it persists.
orderBody(docs, req) ==
    LET doc == docs[req.id]
        reject(code) == [code |-> code, written |-> NoOrder]
    IN  CASE req.route = "create" ->
                 IF ~req.complete THEN reject(400)
                 ELSE IF ~req.available THEN reject(400)
                 ELSE [code |-> 201, written |-> NewOrder]
          [] req.route = "status" ->
                 IF doc = NoOrder THEN reject(404)
                 ELSE IF req.value \notin OrderStatusEnum THEN reject(400)
                 ELSE [code |-> 200, written |-> [doc EXCEPT !.status = req.value]]
          [] req.route = "payment" ->
                 IF doc = NoOrder THEN reject(404)
                 ELSE IF req.value \notin PaymentStatusEnum THEN reject(400)
                 ELSE [code |-> 200, written |->
                          [status |-> IF req.value = "paid" /\ doc.status = "pending"
                                      THEN "confirmed" ELSE doc.status,
                           paymentStatus |-> req.value]]
          [] req.route = "cancel" ->
                 IF doc = NoOrder THEN reject(404)
                 ELSE IF doc.status \in {"shipped", "delivered"} THEN reject(400)
                 ELSE [code |-> 200, written |-> [doc EXCEPT !.status = "cancelled"]]

\* The event service method rethrowing when the publish did not succeed.
publishOrderEventMutantStrict(result) ==
    IF result = "true" THEN "done" ELSE "raised"

\* orderEventService.publishOrderCreated / ...StatusUpdated /
\* ...PaymentStatusUpdated / ...Cancelled: publishEvent's result is not
\* looked at, the email methods answer a boolean, and the catch block only
\* logs.
publishOrderEvent(result) == "done"

\* The status code of a route's catch block.
orderCatch(path) == IF path = "cancel" THEN 500 ELSE 400

\* emailService.sendOrderConfirmationEmail / sendOrderStatusUpdateEmail:
\* false when the service is not configured, true when
\* transporter.sendMail resolved, false from the catch block otherwise.
sendOrderEmail(isConfigured, sent) ==
    IF ~isConfigured THEN "false"
    ELSE IF sent THEN "true" ELSE "false"

\* The event service method leaving out the email when the publish did not
\* succeed.
emailOrderEventMutantAfterPublish(path, result, isConfigured, sent) ==
    IF path = "payment" \/ result # "true" THEN "none"
    ELSE sendOrderEmail(isConfigured, sent)

\* What the event service method's email call gave it: the statement after
\* await rabbitmqHelper.publishEvent(...), which publishPaymentStatusUpdated
\* does not have.
emailOrderEvent(path, result, isConfigured, sent) ==
    IF path = "payment" THEN "none" ELSE sendOrderEmail(isConfigured, sent)

\* The rest of a route after await orderEventService.publish...(order).
orderRespond(req, code, published, emailed, written) ==
    IF publishOrderEvent(published) = "raised"
    THEN OrderResponse(req, orderCatch(req.route), FALSE, published, emailed, written)
    ELSE OrderResponse(req, code, TRUE, published, emailed, written)

\* The requests clients send.
OrderRequests ==
    {OrderRequest("create", k, "", c, a) :
         k \in OrderKeys, c \in BOOLEAN, a \in BOOLEAN}
    \cup {OrderRequest("status", k, v, TRUE, TRUE) : k \in OrderKeys, v \in StatusInputs}
    \cup {OrderRequest("payment", k, v, TRUE, TRUE) : k \in OrderKeys, v \in PaymentInputs}
    \cup {OrderRequest("cancel", k, "", TRUE, TRUE) : k \in OrderKeys}

\* A route handler from its first line to its response, or to its await of
\* the event service when publishEvent has to connect first. POST gives the
\* new order an _id not in use.
OrderRoute ==
    \E req \in OrderRequests, accepted \in BOOLEAN :
        LET b == orderBody(orderService.docs, req)
        IN  /\ orderService.pending = NoOrderRequest
            /\ req.route = "create" => orderService.docs[req.id] = NoOrder
            /\ IF b.written = NoOrder
               THEN /\ orderService' = [orderService EXCEPT !.res =
                           OrderResponse(req, b.code, FALSE, "none", "none", NoOrder)]
                    /\ obs' = Quiet
                    /\ UNCHANGED <<helper, broker, msgs, running, calls, proc>>
               ELSE /\ publishEventEnter(TRUE, accepted)
                    /\ IF obs'.pub.result = "none"
                       THEN orderService' = [orderService EXCEPT
                                !.docs[req.id] = b.written, !.pending = req,
                                !.written = b.written, !.res = NoOrderResponse]
                       ELSE \E isConfigured \in BOOLEAN, sent \in BOOLEAN :
                              orderService' = [orderService EXCEPT
                                !.docs[req.id] = b.written,
                                !.res = orderRespond(req, b.code, obs'.pub.result,
                                            emailOrderEvent(req.route, obs'.pub.result,
                                                            isConfigured, sent),
                                            b.written)]
            /\ UNCHANGED <<ledger, stamps, gateway, server>>

\* The route resumes when publishEvent, after its connect(), has returned.
OrderRouteResumes ==
    \E accepted \in BOOLEAN :
        LET req == orderService.pending
        IN  /\ req # NoOrderRequest
            /\ publishEventResume(accepted)
            /\ \E isConfigured \in BOOLEAN, sent \in BOOLEAN :
                 orderService' = [orderService EXCEPT
                    !.pending = NoOrderRequest, !.written = NoOrder,
                    !.res = orderRespond(req, IF req.route = "create" THEN 201 ELSE 200,
                                         obs'.pub.result,
                                         emailOrderEvent(req.route, obs'.pub.result,
                                                         isConfigured, sent),
                                         orderService.written)]
            /\ UNCHANGED <<ledger, stamps, gateway, server>>

\* The service publishes; its first publishEvent connects.
NextOrders ==
    \/ OrderRoute
    \/ OrderRouteResumes
    \/ TimerFires
    \/ AmqpConnectSettles
    \/ CreateChannelSettles
    \/ AssertExchangeSettles
    \/ ConnectReturns
    \/ BrokerStops
    \/ BrokerStarts

SpecOrders == Init /\ [][NextOrders]_vars

\* C11: a messaging failure never fails the originating business
\* transaction: when publishEvent answered false (broker unavailable,
\* channel gone, or the publish refused), the order route that called it has
\* persisted its change and has answered with its success response.
C11_MessagingFailureAbsorbed ==
    LET r == orderService.res
    IN  r.published = "false"
            => /\ r.success
               /\ r.code = (IF r.req.route = "create" THEN 201 ELSE 200)
               /\ r.written # NoOrder
               /\ orderService.docs[r.req.id] = r.written

C11_Witness ==
    /\ orderService.res.published = "false"
    /\ orderService.res.req.route = "payment"
    /\ ~broker.up

(***************************************************************************)
(* SpecRetire: one request at a time, records retired by an operator       *)
(***************************************************************************)
\* An operator retires a record: isActive is set to false in the collection
\* (no route does it).
Deactivate ==
    \E i \in 1..Len(db) :
        /\ last = NoneYet
        /\ db[i].isActive
        /\ db' = [db EXCEPT ![i].isActive = FALSE]
        /\ UNCHANGED <<last, prev, hist, inflight, applied>>
        /\ UNCHANGED <<messaging, rest>>

NextRetire ==
    \/ CreateInventory
    \/ UpdateStock
    \/ ReserveStock
    \/ ReleaseStock
    \/ ResponseSent
    \/ Deactivate

SpecRetire == Init /\ [][NextRetire]_vars

\* A body that carries every field its route requires.
Complete(r) ==
    /\ r.quantity # 0
    /\ r.op = "stock" => (r.type # "" /\ r.reason # "")
    /\ r.op \in {"reserve", "release"} => r.orderId # ""

\* C21 as stated: a stock, reserve or release (with or without fulfill)
\* request for a productId with no record, or with an inactive record, is
\* answered 404 and leaves the collection as it was.
C21_MissingOrInactiveNotFound ==
    (/\ last.req.op \in {"stock", "reserve", "release"}
     /\ ~HasActive(last.before, last.req.productId))
    => /\ last.status = 404
       /\ db = last.before

\* C21 amended: such a request leaves the collection as it was and is
\* answered 404 when its body carries the required fields; a body that
\* lacks one is answered 400 before the record is looked up.
C21_NotFoundAfterBodyCheck ==
    (/\ last.req.op \in {"stock", "reserve", "release"}
     /\ ~HasActive(last.before, last.req.productId))
    => /\ db = last.before
       /\ last.status = (IF Complete(last.req) THEN 404 ELSE 400)

C21_Witness ==
    /\ last.req.op = "release"
    /\ last.req.fulfill
    /\ Complete(last.req)
    /\ Matches(last.before, last.req.productId, FALSE) # {}
    /\ ~HasActive(last.before, last.req.productId)
    /\ last.before[1].reservedStock >= last.req.quantity
    /\ last.status = 404

\* C22 as stated: a reserve or release request without quantity or orderId,
\* and a stock request without quantity, type or reason or with a type
\* outside {in, out, adjustment}, is answered 400 and changes no record.
C22_InvalidRequestRejected ==
    (\/ (last.req.op \in {"stock", "reserve", "release"} /\ ~Complete(last.req))
     \/ (last.req.op = "stock" /\ last.req.type \notin {"in", "out", "adjustment"}))
    => /\ last.status = 400
       /\ db = last.before

\* C22 amended: a request that lacks a required field is answered 400; a
\* stock request that carries them with a type outside {in, out, adjustment}
\* is answered 400 when the product has an active record and 404 when it
\* has none; neither changes a record.
C22_InvalidRequestAfterLookup ==
    /\ (last.req.op \in {"stock", "reserve", "release"} /\ ~Complete(last.req))
        => /\ last.status = 400
           /\ db = last.before
    /\ (/\ last.req.op = "stock"
        /\ Complete(last.req)
        /\ last.req.type \notin {"in", "out", "adjustment"})
        => /\ db = last.before
           /\ last.status = (IF HasActive(last.before, last.req.productId)
                             THEN 400 ELSE 404)

C22_Witness ==
    /\ last.req.op = "reserve"
    /\ last.req.quantity = 0
    /\ last.req.orderId # ""
    /\ HasActive(last.before, last.req.productId)
    /\ Active(last.before, last.req.productId).availableStock > 0
    /\ last.status = 400

\* C23: an adjustment with a reason and a target quantity q >= 0 on an
\* active record succeeds, sets currentStock to exactly q and leaves
\* reservedStock unchanged.
C23_AdjustmentUnconditional ==
    (/\ last.req.op = "stock"
     /\ last.req.type = "adjustment"
     /\ last.req.reason # ""
     /\ last.req.quantity >= 0
     /\ HasActive(last.before, last.req.productId))
    => /\ last.status = 200
       /\ Active(db, last.req.productId).currentStock = last.req.quantity
       /\ Active(db, last.req.productId).reservedStock
            = Active(last.before, last.req.productId).reservedStock

\* The movement type the ledger table prescribes for a request.
ExpectedType(r) ==
    CASE r.op = "stock" -> r.type
      [] r.op = "reserve" -> "reserved"
      [] r.op = "release" -> IF r.fulfill THEN "out" ELSE "released"

\* C29: the movement appended by a stock, reserve or release request
\* answered 200 has the type prescribed for the operation and the request's
\* quantity; reserve and release record the orderId as its reference.
C29_MovementTypeAndQuantity ==
    (last.req.op \in {"stock", "reserve", "release"} /\ last.status = 200)
    => LET b == Active(last.before, last.req.productId)
           a == Active(db, last.req.productId)
       IN  /\ Len(a.movements) = Len(b.movements) + 1
           /\ LastMovement(a).type = ExpectedType(last.req)
           /\ LastMovement(a).quantity = last.req.quantity
           /\ last.req.op \in {"reserve", "release"}
                => LastMovement(a).reference = last.req.orderId

C29_Witness ==
    /\ last.req.op = "release"
    /\ last.req.fulfill
    /\ last.status = 200
    /\ LastMovement(Active(db, last.req.productId)).type = "out"
    /\ LastMovement(Active(db, last.req.productId)).reference = "A"
    /\ last.req.quantity >= 1
    /\ Active(last.before, last.req.productId).reservedStock = last.req.quantity

(***************************************************************************)
(* SpecMovements: the ledger one request at a time, with the createdAt of  *)
(* the movements, retired records, and the movements read                  *)
(***************************************************************************)
\* save() stamps the movements pushed since the load with the clock's value:
\* the createdAt sequences of the collection after a handler that saved at t.
stampPushed(createdAt, coll, t) ==
    [i \in 1..Len(coll) |->
        LET old == IF i <= Len(createdAt) THEN createdAt[i] ELSE <<>>
        IN  old \o [k \in 1..(Len(coll[i].movements) - Len(old)) |-> t]]

\* movements.sort((a, b) => new Date(b.createdAt) - new Date(a.createdAt)):
\* a stable sort, larger createdAt first.
RECURSIVE insertByDate(_, _)
insertByDate(sorted, x) ==
    IF sorted = <<>> THEN <<x>>
    ELSE IF Head(sorted).createdAt >= x.createdAt
    THEN <<Head(sorted)>> \o insertByDate(Tail(sorted), x)
    ELSE <<x>> \o sorted

RECURSIVE sortNewestFirst(_, _)
sortNewestFirst(movements, n) ==
    IF n = 0 THEN <<>>
    ELSE insertByDate(sortNewestFirst(movements, n - 1), movements[n])

\* The movements of the document at position i with their createdAt.
Dated(coll, createdAt, i) ==
    [k \in 1..Len(coll[i].movements) |->
        [movement |-> coll[i].movements[k], createdAt |-> createdAt[i][k]]]

\* GET /:productId/movements
getMovements(coll, createdAt, productId) ==
    LET i == findOne(coll, productId, TRUE)
    IN  IF i = NoDoc THEN MovementsResponse(404, "", <<>>)
        ELSE MovementsResponse(200, coll[i].productId,
                 sortNewestFirst(Dated(coll, createdAt, i),
                                 Len(coll[i].movements)))

\* The read route saving the array it sorted.
afterReadMutantSaves(coll, i, sorted) ==
    [coll EXCEPT ![i].movements = [k \in 1..Len(sorted) |-> sorted[k].movement]]

\* What GET /:productId/movements leaves in the collection: the sort is on
\* the loaded document, which is never saved.
afterRead(coll, i, sorted) == coll

\* One mutating request handled from its first line to its response; its
\* save, if it comes to one, reads the clock, which has advanced since the
\* previous save or has not.
HandleAt(r) ==
    /\ TotalMovements(db) < MaxDatedMovements
    /\ \E tick \in BOOLEAN :
        LET o == route(db, r)
            t == stamps.now + (IF tick THEN 1 ELSE 0)
        IN  /\ db' = o.coll
            /\ stamps' = IF o.coll = db THEN [stamps EXCEPT !.read = NoRead]
                          ELSE Stamps(t, stampPushed(stamps.createdAt, o.coll, t),
                                      NoRead)
    /\ UNCHANGED <<last, prev, hist, inflight, applied>>
    /\ UNCHANGED <<messaging, orderService, gateway, server>>

CreateInventoryAt ==
    \E p \in ProductIds, s \in InitialStocks :
        /\ last = NoneYet
        /\ HandleAt(CreateReq(p, s))

UpdateStockAt ==
    \E p \in ProductIds, q \in Quantities, t \in MovementTypes, rs \in Reasons :
        /\ last = NoneYet
        /\ HandleAt(StockReq(p, q, t, rs))

ReserveStockAt ==
    \E p \in ProductIds, q \in Quantities, o \in OrderIds :
        /\ last = NoneYet
        /\ HandleAt(ReserveReq(p, q, o))

ReleaseStockAt ==
    \E p \in ProductIds, q \in Quantities, o \in OrderIds, f \in BOOLEAN :
        /\ last = NoneYet
        /\ HandleAt(ReleaseReq(p, q, o, f))

\* GET /:productId/movements from its first line to its response.
GetMovements ==
    \E p \in ProductIds :
        LET res == getMovements(db, stamps.createdAt, p)
        IN  /\ last = NoneYet
            /\ stamps' = [stamps EXCEPT !.read = res]
            /\ db' = IF res.status = 200
                      THEN afterRead(db, findOne(db, p, TRUE), res.movements)
                      ELSE db
            /\ UNCHANGED <<last, prev, hist, inflight, applied>>
            /\ UNCHANGED <<messaging, orderService, gateway, server>>

NextMovements ==
    \/ CreateInventoryAt
    \/ UpdateStockAt
    \/ ReserveStockAt
    \/ ReleaseStockAt
    \/ GetMovements
    \/ Deactivate

SpecMovements == Init /\ [][NextMovements]_vars

\* The stored record a read answered for.
ReadRecord == db[CHOOSE i \in 1..Len(db) : db[i].productId = stamps.read.productId]

\* C25: GET /:productId/movements answers with all movements of the record,
\* newest first: in the reverse of the order in which the operations that
\* appended them were applied, which is the order of the stored array.
C25_NewestFirst ==
    stamps.read.status = 200
    => LET stored == ReadRecord.movements
           n == Len(stored)
       IN  /\ Len(stamps.read.movements) = n
           /\ \A k \in 1..n : stamps.read.movements[k].movement = stored[n + 1 - k]

\* C30: the persisted movement log is append-only: with every step, reads
\* included, no record disappears and the log each record had before the
\* step is a prefix of the log it has after it.
C30_AppendOnly ==
    [][/\ Len(db') >= Len(db)
       /\ \A i \in 1..Len(db) :
            /\ db'[i].productId = db[i].productId
            /\ Len(db'[i].movements) >= Len(db[i].movements)
            /\ SubSeq(db'[i].movements, 1, Len(db[i].movements)) = db[i].movements]_vars

C30_Witness ==
    /\ stamps.read.status = 200
    /\ Len(stamps.read.movements) = 2
    /\ stamps.read.movements[1].createdAt > stamps.read.movements[2].createdAt
    /\ stamps.read.movements[1].movement # stamps.read.movements[2].movement
    /\ ReadRecord.movements
         = <<stamps.read.movements[2].movement, stamps.read.movements[1].movement>>

(***************************************************************************)
(* SpecCreate: interleaved handlers and retired records                    *)
(***************************************************************************)
NextCreate ==
    \/ BeginCreate
    \/ BeginStock
    \/ BeginReserve
    \/ BeginRelease
    \/ FinishRequest
    \/ Deactivate

SpecCreate == InitRace /\ [][NextCreate]_vars

HasRecord(coll, p) == \E i \in 1..Len(coll) : coll[i].productId = p

\* C24: at most one record exists per productId in every reachable state;
\* a create for a productId that has a record, active or not, is answered
\* 400 and leaves the collection as it is, whether it finds the record at
\* its lookup or, two creates interleaving, only at its insert.
C24_OneRecordPerProduct ==
    /\ [](/\ \A i, j \in 1..Len(db) : db[i].productId = db[j].productId => i = j
          /\ \A p \in ProductIds, st \in InitialStocks :
                HasRecord(db, p)
                    => /\ createRoute(db, CreateReq(p, st)).status = 400
                       /\ createRoute(db, CreateReq(p, st)).coll = db)
    /\ [][\A c \in Clients :
            (/\ inflight[c].req.op = "create"
             /\ inflight'[c] = Idle
             /\ HasRecord(db, inflight[c].req.productId))
            => /\ db' = db
               /\ applied' = applied
               /\ insertAndAnswer(db, createBody(inflight[c].req.productId,
                                                 inflight[c].req.quantity)).status = 400]_vars

C24_Witness ==
    \E c \in Clients :
        /\ inflight[c].req.op = "create"
        /\ \E i \in 1..Len(db) :
              /\ db[i].productId = inflight[c].req.productId
              /\ ~db[i].isActive

(***************************************************************************)
(* SpecServer: a service process from startServer() to its exit            *)
(***************************************************************************)
\* The catch block of startServer(): console.error, process.exit(1).
startupFailed(s) == Server("exited", s.listening, 1)

\* await mongoose.connect(process.env.MONGODB_URI) settles; on success
\* startServer() goes on to await rabbitmqHelper.connect().
MongooseConnectSettles ==
    \E ok \in BOOLEAN :
        /\ ~proc.exited
        /\ server.pc = "mongoose.connect"
        /\ IF ok
           THEN /\ server' = [server EXCEPT !.pc = "rabbitmqHelper.connect"]
                /\ calls' = [calls EXCEPT !["connect"] = connectEnter(helper, TRUE)]
                /\ UNCHANGED proc
           ELSE /\ server' = startupFailed(server)
                /\ proc' = terminated(proc)
                /\ UNCHANGED calls
        /\ obs' = Quiet
        /\ UNCHANGED <<helper, broker, msgs, running>>
        /\ UNCHANGED <<ledger, orderService, stamps, gateway>>

\* await rabbitmqHelper.connect() returns or throws.  After it come
\* emailService.initialize(), which catches whatever it meets, and the
\* subscription, whose errors userEventService.subscribeToOrderEvents
\* catches and logs.
RabbitConnectReturns ==
    /\ ~proc.exited
    /\ server.pc = "rabbitmqHelper.connect"
    /\ calls["connect"].pc \in {"connected", "threw"}
    /\ IF calls["connect"].pc = "threw"
       THEN /\ server' = startupFailed(server)
            /\ proc' = terminated(proc)
            /\ calls' = [c \in Callers |-> NoCall]
            /\ broker' = disconnected(broker)
       ELSE /\ server' = [server EXCEPT !.pc = "subscribe"]
            /\ calls' = [calls EXCEPT
                            !["connect"] = NoCall,
                            !["subscribe"] =
                                IF NeedsConnect(helper) THEN connectEnter(helper, TRUE)
                                ELSE channelCall(helper, QueueOps[1])]
            /\ UNCHANGED <<proc, broker>>
    /\ obs' = Quiet
    /\ UNCHANGED <<helper, msgs, running>>
    /\ UNCHANGED <<ledger, orderService, stamps, gateway>>

\* The subscription has returned, in place or failed and logged:
\* setupGracefulShutdown() and app.listen(PORT).
ServerListens ==
    /\ ~proc.exited
    /\ server.pc = "subscribe"
    /\ calls["subscribe"].pc = "idle"
    /\ server' = Server("listening", TRUE, server.status)
    /\ obs' = Quiet
    /\ UNCHANGED <<helper, broker, msgs, running, calls, proc>>
    /\ UNCHANGED <<ledger, orderService, stamps, gateway>>

\* A route handler publishes an event once the server listens.
RoutePublishes ==
    /\ server.listening
    /\ PublishCall

\* SIGINT or SIGTERM once setupGracefulShutdown() has run.
Signal ==
    /\ server.listening
    /\ CloseCall
    /\ proc'.closing.exit

NextServer ==
    \/ MongooseConnectSettles
    \/ AmqpConnectSettles
    \/ CreateChannelSettles
    \/ AssertExchangeSettles
    \/ RabbitConnectReturns
    \/ SubscribeResumes
    \/ QueueOpSettles
    \/ ServerListens
    \/ RoutePublishes
    \/ PublishResumes
    \/ TimerFires
    \/ ConnectReturns
    \/ Produce
    \/ Deliver
    \/ HandlerFinishes
    \/ ConnectionLost
    \/ BrokerStops
    \/ BrokerStarts
    \/ Signal
    \/ ChannelCloseSettles
    \/ ConnectionCloseSettles
    \/ CloseReturns

SpecServer == Init /\ [][NextServer]_vars

\* C26: the only failure that ends a service process is a failed connect of
\* startup (database or broker), with a non-zero exit status and before the
\* HTTP server listens; no failure of publishing, of a handler, of a
\* subscription or of reconnecting ends the process afterwards.  Every step
\* on which the process ends is either the shutdown handler's process.exit
\* after a signal (not a failure) or that exit of startServer().
C26_OnlyStartupConnectFatal ==
    [][(~proc.exited /\ proc'.exited)
        => \/ proc.closing.exit /\ proc.closing.pc = "done"
           \/ /\ server.pc \in {"mongoose.connect", "rabbitmqHelper.connect"}
              /\ server'.pc = "exited"
              /\ server'.status # 0
              /\ ~server'.listening]_vars

(***************************************************************************)
(* SpecGateway: the API gateway, its cache and the proxied services        *)
(***************************************************************************)
\* The writes the backends have taken.
RECURSIVE WritesOf(_, _)
WritesOf(backend, S) ==
    IF S = {} THEN 0
    ELSE LET s == CHOOSE x \in S : TRUE
         IN  backend[s] + WritesOf(backend, S \ {s})

Writes(backend) == WritesOf(backend, Services)

\* A request reaches app.use('/api/<service>', cache(), invalidate...(),
\* proxy): cache() passes it on at once when it is not a GET or Redis is
\* not ready, and awaits redis.get otherwise.
Receive ==
    \E method \in Methods, service \in Services, path \in Paths :
        /\ gateway.req.pc = "idle"
        /\ gateway' = [gateway EXCEPT !.req =
               IF method # "GET"
               THEN GatewayRequest(method, service, path, "proxy", "skipped", FALSE)
               ELSE IF ~isReady(gateway.redis)
               THEN GatewayRequest(method, service, path, "proxy", "not ready", FALSE)
               ELSE GatewayRequest(method, service, path, "redis.get", "none", FALSE)]
        /\ UNCHANGED <<ledger, messaging, orderService, stamps, server>>

\* await this.redis.get(cacheKey) settles in cache(): a value is sent with
\* res.json as a HIT; otherwise, and from the catch block, next().
GetSettles ==
    \E rejects \in BOOLEAN :
        LET req == gateway.req
            r == get(gateway.redis, generateCacheKey("GET", req.service, req.path),
                     rejects)
        IN  /\ req.pc = "redis.get"
            /\ IF r.ok
               THEN gateway' = [gateway EXCEPT
                       !.req = NoGatewayRequest,
                       !.response = GatewayResponse(
                           [req EXCEPT !.pc = "idle", !.path = "", !.lookup = "hit"], 200,
                           r.value, "cache", "none")]
               ELSE gateway' = [gateway EXCEPT !.req =
                       [req EXCEPT !.pc = "proxy",
                                   !.lookup = IF rejects \/ ~isReady(gateway.redis)
                                              THEN "failed" ELSE "miss",
                                   !.raised = r.raised]]
            /\ UNCHANGED <<ledger, messaging, orderService, stamps, server>>

\* The proxy forwards the request.  The backend answers and the answer is
\* piped into res, onProxyRes storing a GET's 2xx answer; or the backend
\* cannot be reached and onError sends 503 with res.json.
BackendResponds ==
    \E answer \in {"2xx", "4xx", "unreachable"}, rejects \in BOOLEAN :
        LET req == gateway.req
            status == CASE answer = "2xx" -> 200 [] answer = "4xx" -> 400
                        [] OTHER -> 503
            via == IF answer = "unreachable" THEN "json" ELSE "pipe"
            written == req.method # "GET" /\ answer = "2xx"
            held == gateway.backend[req.service] + IF written THEN 1 ELSE 0
            body == IF answer = "2xx" THEN held ELSE 0
            stored == onProxyRes(gateway.redis, req, status, body, rejects)
        IN  /\ req.pc = "proxy"
            /\ written => Writes(gateway.backend) < MaxWrites
            /\ gateway' = [gateway EXCEPT
                   !.req = NoGatewayRequest,
                   !.backend[req.service] = held,
                   !.redis.keys =
                       IF via = "pipe" THEN stored.keys
                       ELSE invalidatePattern(gateway.redis, req, via, status, rejects),
                   !.response = GatewayResponse(
                       [req EXCEPT !.pc = "idle", !.path = "",
                                   !.raised = @ \/ (via = "pipe" /\ stored.result.raised)],
                       status, body,
                       IF via = "pipe" THEN "backend" ELSE "gateway",
                       IF via = "pipe" /\ req.method = "GET" /\ answer = "2xx"
                       THEN (IF stored.result.ok THEN "stored" ELSE "not stored")
                       ELSE "none")]
            /\ UNCHANGED <<ledger, messaging, orderService, stamps, server>>

\* The ioredis connection emits 'error' or 'close'.
RedisCloses ==
    /\ gateway.redis.isConnected
    /\ gateway' = [gateway EXCEPT !.redis.isConnected = FALSE]
    /\ UNCHANGED <<ledger, messaging, orderService, stamps, server>>

\* The ioredis connection emits 'ready' after a reconnect.
RedisReady ==
    /\ ~gateway.redis.isConnected
    /\ gateway' = [gateway EXCEPT !.redis.isConnected = TRUE]
    /\ UNCHANGED <<ledger, messaging, orderService, stamps, server>>

\* The ttl given to setex runs out for a key.
Expire ==
    \E k \in CacheKeys :
        /\ gateway.redis.keys[k] # NoEntry
        /\ gateway' = [gateway EXCEPT !.redis.keys[k] = NoEntry]
        /\ UNCHANGED <<ledger, messaging, orderService, stamps, server>>

NextGateway ==
    \/ Receive
    \/ GetSettles
    \/ BackendResponds
    \/ RedisCloses
    \/ RedisReady
    \/ Expire

SpecGateway == Init /\ [][NextGateway]_vars

\* C27: after a 2xx answer to a POST, PUT or DELETE under /api/<service>
\* sent through the gateway, Redis holds no cached GET under that prefix,
\* so that the next GET there is a MISS.
C27_WriteInvalidates ==
    LET r == gateway.response
    IN  (r.req.method # "GET" /\ r.status >= 200 /\ r.status < 300 /\ r.req.method # "")
            => \A k \in CacheKeys :
                  k[3] = r.req.service => gateway.redis.keys[k] = NoEntry

\* C28: with Redis not ready, or failing at any point of a request, the
\* request is still forwarded and answered with what the backend answered,
\* and no cache operation raises: a request whose lookup found Redis not
\* ready or failing stands at the proxy, its answer is never taken from the
\* cache, and a 2xx answer shows the data the backend holds.
C28_RedisFailureTolerated ==
    LET r == gateway.response
        q == gateway.req
    IN  /\ ~q.raised /\ ~r.req.raised
        /\ q.lookup \in {"not ready", "failed"} => q.pc = "proxy"
        /\ (r.req.lookup \in {"not ready", "failed"} \/ r.stored = "not stored")
              => /\ r.source \in {"backend", "gateway"}
                 /\ r.source = "gateway" => r.status = 503
                 /\ (r.source = "backend" /\ r.status = 200)
                       => r.body = gateway.backend[r.req.service]

\* C28 witness: a GET whose redis.get failed while Redis held an answer for
\* it has been answered 200 by the backend, after a write, with the
\* backend's data, and redis.set returned false.
C28_Witness ==
    LET r == gateway.response
    IN  /\ r.req.method = "GET"
        /\ r.req.lookup = "failed"
        /\ r.source = "backend"
        /\ r.status = 200
        /\ r.stored = "not stored"
        /\ r.body = 1
        /\ \E k \in CacheKeys :
              k[3] = r.req.service /\ gateway.redis.keys[k] = stringify(0)

(***************************************************************************)
(* Ledger claims: repeated requests and the movement log                   *)
(***************************************************************************)
\* C32: reserve is not deduplicated by orderId: the same reserve request
\* (same product, quantity and order) repeated while the available stock
\* covers it succeeds again, raising reservedStock by the quantity once
\* more and appending one more reserved movement for the order.
C32_ReserveNotDeduplicated ==
    (/\ prev.req.op = "reserve"
     /\ last.req = prev.req
     /\ last.req.quantity >= 1
     /\ HasActive(last.before, last.req.productId)
     /\ last.req.quantity <= Active(last.before, last.req.productId).availableStock)
    => /\ last.status = 200
       /\ LET b == Active(prev.before, prev.req.productId)
              a == Active(db, last.req.productId)
              n == Len(b.movements)
          IN  /\ a.reservedStock = b.reservedStock + 2 * last.req.quantity
              /\ a.currentStock = b.currentStock
              /\ Len(a.movements) = n + 2
              /\ SubSeq(a.movements, 1, n) = b.movements
              /\ \A i \in {n + 1, n + 2} :
                    /\ a.movements[i].type = "reserved"
                    /\ a.movements[i].quantity = last.req.quantity
                    /\ a.movements[i].reference = last.req.orderId

\* C32 witness: the same reserve has been answered 200 twice in a row.
C32_Witness ==
    /\ prev.req.op = "reserve"
    /\ last.req = prev.req
    /\ last.status = 200
    /\ last.req.quantity >= 1
    /\ Active(db, last.req.productId).reservedStock = 2 * last.req.quantity

\* The stock a movement log amounts to when replayed from zero in insertion
\* order: "in" adds, "out" subtracts, "adjustment" sets, the others keep.
RECURSIVE replay(_, _)
replay(movements, n) ==
    IF n = 0 THEN 0
    ELSE LET m == movements[n]
             before == replay(movements, n - 1)
         IN  CASE m.type = "in" -> before + m.quantity
               [] m.type = "out" -> before - m.quantity
               [] m.type = "adjustment" -> m.quantity
               [] OTHER -> before

\* C40: with requests handled one after the other, the currentStock of every
\* record equals the replay of its movement log from zero.
C40_StockIsReplayOfLog ==
    \A i \in 1..Len(db) :
        db[i].currentStock = replay(db[i].movements, Len(db[i].movements))

\* C40 witness: a record whose log holds an in, an adjustment and an out
\* movement, in some order, besides whatever else.
C40_Witness ==
    \E i \in 1..Len(db) :
        /\ \A ty \in {"in", "adjustment", "out"} :
              \E k \in 1..Len(db[i].movements) : db[i].movements[k].type = ty
        /\ db[i].currentStock > 0

(***************************************************************************)
(* SpecPrefetch: the subscriptions of one process and a backlog            *)
(***************************************************************************)
\* Other services publish to the bound exchanges while handlers are busy.
Backlog ==
    /\ ~proc.exited
    /\ broker.up
    /\ broker.bound
    /\ Len(msgs) < MaxBacklog
    /\ msgs' = Append(msgs, Message("ready", null, 0, FALSE))
    /\ obs' = Quiet
    /\ UNCHANGED <<helper, broker, running, calls, proc>>
    /\ UNCHANGED <<ledger, rest>>

\* The subscriber side alone on a stable connection: subscribeToEvents
\* (called once per subscription, as the services do at startup) with its
\* lazy connect(), the broker delivering, the consume callback.
NextPrefetch ==
    \/ SubscribeCall
    \/ SubscribeResumes
    \/ AmqpConnectSettles
    \/ CreateChannelSettles
    \/ AssertExchangeSettles
    \/ QueueOpSettles
    \/ Backlog
    \/ Deliver
    \/ HandlerFinishes

SpecPrefetch == Init /\ [][NextPrefetch]_vars

\* C31: at any time at most one message delivered on the process's channel
\* is unacknowledged, and at most one handler is running, whatever the
\* number of subscriptions the process holds on the channel.
C31_OneUnackedPerChannel ==
    /\ \A n \in DOMAIN broker.conns : Cardinality(Unacked(msgs, n)) <= 1
    /\ Cardinality(running) <= 1

(***************************************************************************)
(* Messaging claims: the channel of a settlement, close(), isConnected     *)
(***************************************************************************)
\* C37: a message is acknowledged or rejected on the channel it was
\* delivered on: whatever happened to the connection while the handler ran,
\* the callback that finishes sends its settlement on no other channel and
\* does not dereference a null this.channel.
C37_SettledOnDeliveryChannel ==
    LET s == obs.settle
    IN  s.msg # null => /\ s.sentOn \in {s.chan, null}
                        /\ helper.channel # null

\* C38: after an explicit close() the manager stays closed: the 'close'
\* event of the connection that close() closes schedules no reconnection,
\* so that the fields stay null/false until the next call.  Stated of the
\* step on which await this.connection.close() settles in a close() that
\* the shutdown handler did not make: it adds no reconnect timer.
C38_NoReconnectAfterClose ==
    [][(/\ ~proc.closing.exit
        /\ proc.closing.pc = "connection.close"
        /\ proc'.closing.pc = "done")
       => proc'.timers = proc.timers]_vars

\* C39: whenever isConnected is true, connection and channel are set and
\* are those of a connection that is still open; and the 'error' or 'close'
\* event of a connection the helper has replaced leaves isConnected as it
\* is for the current connection, which stays open.
C39_ConnectedMeansOpen ==
    /\ [](helper.isConnected =>
             /\ helper.connection # null
             /\ helper.channel # null
             /\ broker.conns[helper.connection].open
             /\ ChannelOpen(broker, helper.channel))
    /\ [][\A n \in DOMAIN broker.conns :
            (/\ helper.isConnected
             /\ helper.connection # null
             /\ n # helper.connection
             /\ broker.conns[n].open
             /\ ~broker'.conns[n].open
             /\ broker'.conns[helper.connection].open)
            => helper'.isConnected]_vars

(***************************************************************************)
(* SpecDeclare: declarations made again                                    *)
(***************************************************************************)
\* subscribeToEvents() called and called again with its lazy connect(), the
\* connection lost in between and the reconnect timer running connect().
NextDeclare ==
    \/ SubscribeCall
    \/ SubscribeResumes
    \/ AmqpConnectSettles
    \/ CreateChannelSettles
    \/ AssertExchangeSettles
    \/ ConnectReturns
    \/ QueueOpSettles
    \/ ConnectionLost
    \/ TimerFires

SpecDeclare == Init /\ [][NextDeclare]_vars

\* What the broker has declared: exchanges, the queue, its binding.
Declared(b) == <<b.exchanges, b.queue, b.bound>>

NextResubscribe ==
    \/ SubscribeCall
    \/ SubscribeResumes
    \/ AmqpConnectSettles
    \/ CreateChannelSettles
    \/ AssertExchangeSettles
    \/ ConnectReturns
    \/ QueueOpSettles
    \/ ConnectionLost
    \/ TimerFires
    \/ Produce
    \/ Deliver
    \/ HandlerFinishes

SpecResubscribe ==
    /\ Init
    /\ [][NextResubscribe]_vars
    /\ WF_vars(SubscribeResumes)
    /\ WF_vars(AmqpConnectSettles)
    /\ WF_vars(CreateChannelSettles)
    /\ WF_vars(AssertExchangeSettles)
    /\ WF_vars(ConnectReturns)
    /\ WF_vars(QueueOpSettles)
    /\ WF_vars(TimerFires)
    /\ WF_vars(Deliver)
    /\ WF_vars(HandlerFinishes)

\* The helper is connected on an open connection made after a loss.
Reconnected ==
    /\ Connected(helper)
    /\ ChannelOpen(broker, helper.channel)
    /\ \E n \in DOMAIN broker.conns : ~broker.conns[n].open

\* Message m is in the queue, ready and not delivered.
Waiting(m) == m \in DOMAIN msgs /\ msgs[m].status = "ready"

\* C36: after a connection loss followed by a successful reconnection the
\* subscriptions registered before are consuming again: once a
\* subscription has been put in place, a message that is ready in its queue
\* while the helper is reconnected is eventually delivered to the handler,
\* unless the connection is lost once more.
C36_ConsumingAfterReconnect ==
    [](obs.sub = "consuming" =>
        [](\A m \in 1..MaxMessages :
              (Reconnected /\ Waiting(m)) => <>(~Waiting(m) \/ ~Reconnected)))


(***************************************************************************)
(* The event service methods: publication and email                       *)
(***************************************************************************)
\* C33: in the publish methods of the order event service the publication
\* and the email call are independent and neither failure reaches the
\* caller: whenever a route has called its publish method, whatever
\* publishEvent returned, the email method has been called where the method
\* has one (every route but the payment route), whatever that email call
\* returned the result of publishEvent stands as it was, and the route
\* answered its success response with its change persisted.
C33_PublishAndEmailIndependent ==
    LET r == orderService.res
    IN  r.published # "none" =>
            /\ r.published \in {"true", "false"}
            /\ r.req.route # "payment" => r.emailed \in {"true", "false"}
            /\ r.req.route = "payment" => r.emailed = "none"
            /\ r.success
            /\ r.code = IF r.req.route = "create" THEN 201 ELSE 200
            /\ r.written # NoOrder

\* publishEvent returned false and the confirmation email was sent all the
\* same.
C33_Witness ==
    LET r == orderService.res
    IN  /\ r.req.route = "create"
        /\ r.published = "false"
        /\ r.emailed = "true"
        /\ r.success


(***************************************************************************)
(* SpecPlaceholder: the services' placeholder handlers                     *)
(***************************************************************************)
\* handleUserDeactivated, handlePaymentConfirmed, handlePaymentFailed and
\* handleOrderCreated: console.log inside a try block whose catch logs.
placeholderHandler(content) == "returned"

\* The consume callback with a placeholder handler, from the delivery to the
\* settlement: the handler awaits nothing, so the callback settles in the
\* turn of the event loop that delivered the message, on this.channel as it
\* is then.  A content that is not JSON makes JSON.parse throw into the
\* catch block.
PlaceholderDelivery ==
    \E m \in DOMAIN msgs, n \in DOMAIN broker.conns, parses \in BOOLEAN :
        LET tag == broker.conns[n].tags + 1
            throws == ~parses \/ placeholderHandler(m) # "returned"
            ch == settlementChannel(helper, broker)
            delivered == [msgs EXCEPT ![m] =
                             Message("unacked", n, tag, @.threw \/ throws)]
            hits == {x \in Unacked(delivered, ch) : delivered[x].tag = tag}
            hit == IF hits = {} THEN null ELSE CHOOSE x \in hits : TRUE
            pushed == [broker EXCEPT !.conns[n].tags = tag]
        IN  /\ ~proc.exited
            /\ msgs[m].status = "ready"
            /\ CanDeliver(broker, msgs, n)
            /\ IF ch = null \/ hit = null
               THEN /\ msgs' = requeue(delivered, DOMAIN broker.conns)
                    /\ broker' = disconnected(pushed)
                    /\ running' = {}
                    /\ calls' = [c \in Callers |-> NoCall]
                    /\ proc' = terminated(proc)
               ELSE /\ msgs' = [delivered EXCEPT ![hit] =
                                   Message(IF throws THEN "dropped" ELSE "acked",
                                           null, 0, @.threw)]
                    /\ broker' = pushed
                    /\ UNCHANGED <<running, calls, proc>>
            /\ obs' = [Quiet EXCEPT !.settle =
                          Settled(m, n, throws, TRUE, ch,
                                  IF ch = null THEN "none" ELSE settlementKind(throws),
                                  IF ch = null THEN null ELSE hit)]
            /\ UNCHANGED helper
            /\ UNCHANGED <<ledger, rest>>

\* The helper in a service: connect(), subscribeToEvents() with its lazy
\* connect(), the connection lost at any moment, the reconnect timer, other
\* services publishing.
NextPlaceholder ==
    \/ ConnectCall
    \/ SubscribeCall
    \/ SubscribeResumes
    \/ AmqpConnectSettles
    \/ CreateChannelSettles
    \/ AssertExchangeSettles
    \/ ConnectReturns
    \/ QueueOpSettles
    \/ ConnectionLost
    \/ TimerFires
    \/ Produce
    \/ PlaceholderDelivery

SpecPlaceholder == Init /\ [][NextPlaceholder]_vars

\* C34: the delivery of a message to a placeholder handler changes no
\* order, user or inventory state and the message is always acknowledged:
\* every step in which the callback of a placeholder handler runs for a
\* message whose content parses leaves the collections as they were and
\* ends with that message acknowledged.
C34_PlaceholderAlwaysAcks ==
    [][(obs'.settle.msg # null /\ ~obs'.settle.threw)
           => /\ UNCHANGED <<ledger, orderService>>
              /\ obs'.settle.kind = "ack"
              /\ msgs'[obs'.settle.msg].status = "acked"]_vars

====
